---- MODULE Spec2Model ----
(***************************************************************************)
(* AnkiLink: the vault-to-Anki sync engine of src/src/syncUtil.ts.         *)
(*                                                                         *)
(* Text is modelled as sequences of one-character strings.  The literal    *)
(* "[!flashcard]" of the header grammar is written as the single symbol    *)
(* FC; every other character stands for itself.  A document is a sequence  *)
(* of lines (the result of split("\n")), a line a sequence of characters.  *)
(***************************************************************************)
EXTENDS Integers, Sequences, FiniteSets, TLC

VARIABLES
    vault,      \* file -> [meta, lines]: front-matter deck value and text
    remote,     \* note id -> remote record, or Absent
    remoteDecks,\* deck names that exist in the remote store
    nextId,     \* next identifier the remote store assigns
    pc,         \* position of the sync run
    run,        \* local state of syncVaultNotes
    wire,       \* the mutation batch response in flight
    hist,       \* history: what happened since the last completed run
    second,     \* a second invocation of the sync handler, made while the
                \* first may be in flight
    remoteModels, \* names of the note types of the remote store
    http        \* the HTTP requests of the client calls of the stage in
                \* progress, and the outcome of the transport

vars == <<vault, remote, remoteDecks, nextId, pc, run, wire, hist, second, remoteModels,
          http>>

----------------------------------------------------------------------------
(* Bounds of the model *)

\* first identifier the remote store hands out (9: ids grow from 1 to 2 digits)
FirstId == 9
\* number of identifiers the remote store can hand out
IdCount == 4
\* user edits of the vault per behaviour
MaxEdits == 2
\* changes made to the remote store behind the engine's back per behaviour
MaxInterference == 1

\* lines of a document handed to the parser
MaxLines == 4

\* characters of a text line with inline delimiters
MaxText == 5

LastId == FirstId + IdCount - 1
NoteIds == FirstId..LastId
Files == {1, 2}

----------------------------------------------------------------------------
(* Characters and strings *)

FC == "[!flashcard]"
Digits == <<"0", "1", "2", "3", "4", "5", "6", "7", "8", "9">>

IsWs(c) == c = " "
IsDigit(c) == \E d \in 1..10 : Digits[d] = c
DigitVal(c) == (CHOOSE d \in 1..10 : Digits[d] = c) - 1

\* index of the first character at or after i that is not whitespace
RECURSIVE SkipWs(_, _)
SkipWs(s, i) == IF i <= Len(s) /\ IsWs(s[i]) THEN SkipWs(s, i + 1) ELSE i

\* index of the first character at or after i that is not a digit
RECURSIVE SkipDigits(_, _)
SkipDigits(s, i) == IF i <= Len(s) /\ IsDigit(s[i]) THEN SkipDigits(s, i + 1) ELSE i

\* Number("0012") = 12
RECURSIVE DigitsToNumber(_)
DigitsToNumber(ds) ==
    IF ds = <<>> THEN 0
    ELSE 10 * DigitsToNumber(SubSeq(ds, 1, Len(ds) - 1)) + DigitVal(ds[Len(ds)])

\* `${n}` for a non-negative integer n
RECURSIVE NumberToDigits(_)
NumberToDigits(n) ==
    IF n < 0 THEN <<"n", "u", "l", "l">>
    ELSE IF n < 10 THEN <<Digits[n + 1]>>
    ELSE NumberToDigits(n \div 10) \o <<Digits[(n % 10) + 1]>>

Rest(s, i) == SubSeq(s, i, Len(s))

StartsWith(s, p) == Len(s) >= Len(p) /\ SubSeq(s, 1, Len(p)) = p

RECURSIVE TrimStart(_)
TrimStart(s) == IF s # <<>> /\ IsWs(s[1]) THEN TrimStart(Tail(s)) ELSE s

RECURSIVE TrimEnd(_)
TrimEnd(s) ==
    IF s # <<>> /\ IsWs(s[Len(s)]) THEN TrimEnd(SubSeq(s, 1, Len(s) - 1)) ELSE s

Trim(s) == TrimEnd(TrimStart(s))

LowerChar(c) ==
    CASE c = "A" -> "a" [] c = "I" -> "i" [] c = "K" -> "k"
      [] c = "L" -> "l" [] c = "N" -> "n" [] OTHER -> c

ToLowerCase(s) == [i \in DOMAIN s |-> LowerChar(s[i])]

----------------------------------------------------------------------------
\* Header grammar: /^>\s*\[!flashcard\]\s*(?:%%(\d+)%%)?\s*(.*)$/

NoId == -1

\* the optional group (?:%%(\d+)%%) tried at position j: the position after it,
\* or 0 when it does not match there
IdGroupEnd(s, j) ==
    IF j + 1 <= Len(s) /\ s[j] = "%" /\ s[j + 1] = "%"
    THEN LET e == SkipDigits(s, j + 2)
         IN IF e > j + 2 /\ e + 1 <= Len(s) /\ s[e] = "%" /\ s[e + 1] = "%"
            THEN e + 2 ELSE 0
    ELSE 0

FC_PREAMBLE_P(s) ==
    IF s = <<>> \/ s[1] # ">" THEN [matched |-> FALSE, id |-> <<>>, title |-> <<>>]
    ELSE LET i == SkipWs(s, 2)
         IN IF i > Len(s) \/ s[i] # FC
            THEN [matched |-> FALSE, id |-> <<>>, title |-> <<>>]
            ELSE LET j == SkipWs(s, i + 1)
                     g == IdGroupEnd(s, j)
                     k == SkipWs(s, IF g = 0 THEN j ELSE g)
                 IN [matched |-> TRUE,
                     id |-> IF g = 0 THEN <<>> ELSE SubSeq(s, j + 2, g - 3),
                     title |-> Rest(s, k)]

parsePreamble(str) == FC_PREAMBLE_P(str)

\* variant: all whitespace after the quote marker is removed
StripQuote_AllWhitespace(line) == TrimStart(Rest(line, 2))

\* line.replace(/^>\s?/, "")
StripQuote(line) ==
    IF Len(line) >= 2 /\ IsWs(line[2]) THEN Rest(line, 3) ELSE Rest(line, 2)

\* variant: a header line inside a quote does not end the body
RECURSIVE parseBody_IgnoresHeaders(_)
parseBody_IgnoresHeaders(lines) ==
    IF lines = <<>> THEN <<>>
    ELSE IF ~StartsWith(lines[1], <<">">>) THEN <<>>
    ELSE <<StripQuote(lines[1])>> \o parseBody_IgnoresHeaders(Tail(lines))

\* variant: only a header with a title ends the body
RECURSIVE parseBody_TitledOnly(_)
parseBody_TitledOnly(lines) ==
    IF lines = <<>> THEN <<>>
    ELSE IF parsePreamble(lines[1]).matched /\ parsePreamble(lines[1]).title # <<>>
         THEN <<>>
    ELSE IF ~StartsWith(lines[1], <<">">>) THEN <<>>
    ELSE <<StripQuote(lines[1])>> \o parseBody_TitledOnly(Tail(lines))

RECURSIVE parseBody(_)
parseBody(lines) ==
    IF lines = <<>> THEN <<>>
    ELSE IF parsePreamble(lines[1]).matched THEN <<>>
    ELSE IF ~StartsWith(lines[1], <<">">>) THEN <<>>
    ELSE <<StripQuote(lines[1])>> \o parseBody(Tail(lines))

----------------------------------------------------------------------------
(* Body formatter: lexBody, parseBodyTokens, renderBodySegments *)

NL == "\n"
\* the backtick character
BT == "BT"

\* lines.join("\n")
RECURSIVE JoinLines(_)
JoinLines(lines) ==
    IF lines = <<>> THEN <<>>
    ELSE IF Len(lines) = 1 THEN lines[1]
    ELSE lines[1] \o <<NL>> \o JoinLines(Tail(lines))

TextToken(line) == [type |-> "text", raw |-> line, marker |-> "", info |-> <<>>]
FenceToken(line, m, info) == [type |-> "fence", raw |-> line, marker |-> m, info |-> info]

lexLine(line) ==
    LET trimmed == Trim(line)
    IN IF trimmed = <<"$", "$">> THEN FenceToken(line, "$$", <<>>)
       ELSE IF StartsWith(trimmed, <<BT, BT, BT>>)
            THEN FenceToken(line, "BT BT BT", Trim(Rest(trimmed, 4)))
       ELSE IF StartsWith(trimmed, <<"~", "~", "~">>)
            THEN FenceToken(line, "~~~", Trim(Rest(trimmed, 4)))
       ELSE TextToken(line)

lexBody(lines) == [i \in DOMAIN lines |-> lexLine(lines[i])]

\* variant: a fence with an info string closes a block as well
RECURSIVE findClosingFenceToken_AnyInfo(_, _, _)
findClosingFenceToken_AnyInfo(tokens, startIdx, marker) ==
    IF startIdx > Len(tokens) THEN 0
    ELSE IF tokens[startIdx].type = "fence" /\ tokens[startIdx].marker = marker
         THEN startIdx
         ELSE findClosingFenceToken_AnyInfo(tokens, startIdx + 1, marker)

\* index of the first closing fence at or after startIdx, or 0 (the code's -1)
RECURSIVE findClosingFenceToken(_, _, _)
findClosingFenceToken(tokens, startIdx, marker) ==
    IF startIdx > Len(tokens) THEN 0
    ELSE IF tokens[startIdx].type = "fence" /\ tokens[startIdx].marker = marker
            /\ Len(tokens[startIdx].info) = 0
         THEN startIdx
         ELSE findClosingFenceToken(tokens, startIdx + 1, marker)

TextSegment(lines) == [type |-> "text", lines |-> lines, language |-> <<>>, content |-> <<>>]
CodeSegment(lang, code) == [type |-> "code", lines |-> <<>>, language |-> lang, content |-> code]
MathSegment(latex) == [type |-> "math", lines |-> <<>>, language |-> <<>>, content |-> latex]

\* variant: the buffered text lines are discarded
flushText_DropsBuffer(segments, textBuffer) == segments

flushText(segments, textBuffer) ==
    IF textBuffer = <<>> THEN segments ELSE Append(segments, TextSegment(textBuffer))

RawLines(tokens, from, to) == [k \in 1..(to - from + 1) |-> tokens[from + k - 1].raw]

\* the while loop of parseBodyTokens from index i on
RECURSIVE ParseTokensFrom(_, _, _, _)
ParseTokensFrom(tokens, i, segments, textBuffer) ==
    IF i > Len(tokens) THEN flushText(segments, textBuffer)
    ELSE LET token == tokens[i]
             closeIdx == findClosingFenceToken(tokens, i + 1, token.marker)
             inner == JoinLines(RawLines(tokens, i + 1, closeIdx - 1))
         IN IF token.type # "fence" \/ closeIdx = 0
            THEN ParseTokensFrom(tokens, i + 1, segments, Append(textBuffer, token.raw))
            ELSE ParseTokensFrom(tokens, closeIdx + 1,
                    Append(flushText(segments, textBuffer),
                           IF token.marker = "$$" THEN MathSegment(inner)
                           ELSE CodeSegment(token.info, inner)),
                    <<>>)

parseBodyTokens(tokens) == ParseTokensFrom(tokens, 1, <<>>, <<>>)

\* value.split(c).join(r) for a single character c
RECURSIVE ReplaceChar(_, _, _)
ReplaceChar(s, c, r) ==
    IF s = <<>> THEN <<>>
    ELSE (IF s[1] = c THEN r ELSE <<s[1]>>) \o ReplaceChar(Tail(s), c, r)

escapeHtml(value) ==
    ReplaceChar(ReplaceChar(ReplaceChar(value, "&", <<"&", "a", "m", "p", ";">>),
                            "<", <<"&", "l", "t", ";">>),
                ">", <<"&", "g", "t", ";">>)

escapeHtmlAttribute(value) ==
    ReplaceChar(ReplaceChar(ReplaceChar(ReplaceChar(value,
                    "&", <<"&", "a", "m", "p", ";">>),
                    "\"", <<"&", "q", "u", "o", "t", ";">>),
                    "<", <<"&", "l", "t", ";">>),
                    ">", <<"&", "g", "t", ";">>)

\* The remark pipeline is an external library: its output for a markdown text
\* is modelled as the text between two markup symbols, trimmed, and as the
\* empty string for a text of blank lines.
MARKDOWN_PROCESSOR(markdown) ==
    IF \A i \in DOMAIN markdown : IsWs(markdown[i]) \/ markdown[i] = NL THEN <<>>
    ELSE <<"<md>">> \o markdown \o <<"</md>">>

BS == "\\"

\* the backslashes that end at position i, counted backwards
RECURSIVE BackslashesEndingAt(_, _)
BackslashesEndingAt(input, i) ==
    IF i >= 1 /\ input[i] = BS THEN 1 + BackslashesEndingAt(input, i - 1) ELSE 0

\* variant: any backslash before the position escapes it
isEscaped_AnyBackslash(input, idx) == BackslashesEndingAt(input, idx - 1) > 0

isEscaped(input, idx) == BackslashesEndingAt(input, idx - 1) % 2 = 1

RECURSIVE countSameCharRun(_, _, _)
countSameCharRun(input, startIdx, char) ==
    IF startIdx <= Len(input) /\ input[startIdx] = char
    THEN 1 + countSameCharRun(input, startIdx + 1, char) ELSE 0

\* position of the closing run of backticks, or 0 (the code's -1)
RECURSIVE findMatchingTickRun(_, _, _)
findMatchingTickRun(input, startIdx, tickRunLength) ==
    IF startIdx > Len(input) THEN 0
    ELSE IF input[startIdx] # BT \/ isEscaped(input, startIdx)
         THEN findMatchingTickRun(input, startIdx + 1, tickRunLength)
    ELSE IF countSameCharRun(input, startIdx, BT) = tickRunLength THEN startIdx
    ELSE findMatchingTickRun(input, startIdx + 1, tickRunLength)

\* input[i] === "$", false past the end of the input
IsDollar(input, i) == i <= Len(input) /\ input[i] = "$"

\* position of the closing delimiter, or 0 (the code's -1)
RECURSIVE findInlineMathEnd(_, _, _)
findInlineMathEnd(input, startIdx, isDoubleDollar) ==
    IF startIdx > Len(input) THEN 0
    ELSE IF input[startIdx] # "$" \/ isEscaped(input, startIdx)
         THEN findInlineMathEnd(input, startIdx + 1, isDoubleDollar)
    ELSE IF isDoubleDollar = IsDollar(input, startIdx + 1) THEN startIdx
    ELSE findInlineMathEnd(input, startIdx + 1, isDoubleDollar)

NoInline == [found |-> FALSE, text |-> <<>>, length |-> 0]

consumeInlineCode(input, startIdx) ==
    IF input[startIdx] # BT \/ isEscaped(input, startIdx) THEN NoInline
    ELSE LET tickRunLength == countSameCharRun(input, startIdx, BT)
             closeTickIdx ==
                 findMatchingTickRun(input, startIdx + tickRunLength, tickRunLength)
             endIdx == closeTickIdx + tickRunLength
         IN IF closeTickIdx = 0 THEN NoInline
            ELSE [found |-> TRUE, text |-> SubSeq(input, startIdx, endIdx - 1),
                  length |-> endIdx - startIdx]

\* the text ANKILINK_MATH_<n>_TOKEN
Placeholder(n) == <<"ANKILINK_MATH_">> \o NumberToDigits(n) \o <<"_TOKEN">>

NoMath == [found |-> FALSE, placeholder |-> <<>>, replacement |-> <<>>, length |-> 0,
           nextPlaceholderCounter |-> 0]

\* variant: the span is measured by its content, without the delimiters
consumeInlineMath_ContentLength(input, startIdx, placeholderCounter) ==
    IF input[startIdx] # "$" \/ isEscaped(input, startIdx) THEN NoMath
    ELSE LET isDoubleDollar == IsDollar(input, startIdx + 1)
             openDelimiterLength == IF isDoubleDollar THEN 2 ELSE 1
             closeIdx ==
                 findInlineMathEnd(input, startIdx + openDelimiterLength, isDoubleDollar)
             contentStart == startIdx + openDelimiterLength
             latex == SubSeq(input, contentStart, closeIdx - 1)
         IN IF closeIdx = 0 THEN NoMath
            ELSE [found |-> TRUE,
                  placeholder |-> Placeholder(placeholderCounter),
                  replacement |-> <<"\\(">> \o latex \o <<"\\)">>,
                  length |-> closeIdx - contentStart,
                  nextPlaceholderCounter |-> placeholderCounter + 1]

consumeInlineMath(input, startIdx, placeholderCounter) ==
    IF input[startIdx] # "$" \/ isEscaped(input, startIdx) THEN NoMath
    ELSE LET isDoubleDollar == IsDollar(input, startIdx + 1)
             openDelimiterLength == IF isDoubleDollar THEN 2 ELSE 1
             closeIdx ==
                 findInlineMathEnd(input, startIdx + openDelimiterLength, isDoubleDollar)
             contentStart == startIdx + openDelimiterLength
             latex == SubSeq(input, contentStart, closeIdx - 1)
         IN IF closeIdx = 0 THEN NoMath
            ELSE [found |-> TRUE,
                  placeholder |-> Placeholder(placeholderCounter),
                  replacement |-> <<"\\(">> \o latex \o <<"\\)">>,
                  length |-> closeIdx + openDelimiterLength - startIdx,
                  nextPlaceholderCounter |-> placeholderCounter + 1]

\* the while loop of extractInlineMathPlaceholders from position i on, and
\* one pass of it with what consumeInlineCode and consumeInlineMath return
RECURSIVE ExtractFrom(_, _, _, _, _)
ExtractStep(markdown, i, output, replacements, placeholderCounter,
            inlineCode, inlineMath) ==
    IF inlineCode.found
    THEN ExtractFrom(markdown, i + inlineCode.length,
                     output \o inlineCode.text, replacements, placeholderCounter)
    ELSE IF ~inlineMath.found
    THEN ExtractFrom(markdown, i + 1, Append(output, markdown[i]),
                     replacements, placeholderCounter)
    ELSE ExtractFrom(markdown, i + inlineMath.length,
                     output \o inlineMath.placeholder,
                     Append(replacements,
                            [placeholder |-> inlineMath.placeholder,
                             replacement |-> inlineMath.replacement]),
                     inlineMath.nextPlaceholderCounter)

ExtractFrom(markdown, i, output, replacements, placeholderCounter) ==
    IF i > Len(markdown)
    THEN [markdownWithPlaceholders |-> output, replacements |-> replacements]
    ELSE ExtractStep(markdown, i, output, replacements, placeholderCounter,
                     consumeInlineCode(markdown, i),
                     consumeInlineMath(markdown, i, placeholderCounter))

extractInlineMathPlaceholders(markdown) == ExtractFrom(markdown, 1, <<>>, <<>>, 0)

\* value.split(pattern).join(replacement)
RECURSIVE ReplaceAll(_, _, _)
ReplaceAll(value, pattern, replacement) ==
    IF value = <<>> THEN <<>>
    ELSE IF StartsWith(value, pattern)
         THEN replacement \o ReplaceAll(Rest(value, Len(pattern) + 1), pattern, replacement)
         ELSE <<value[1]>> \o ReplaceAll(Tail(value), pattern, replacement)

\* the for loop over the replacements
RECURSIVE ApplyReplacements(_, _)
ApplyReplacements(rendered, replacements) ==
    IF replacements = <<>> THEN rendered
    ELSE ApplyReplacements(
            ReplaceAll(rendered, replacements[1].placeholder, replacements[1].replacement),
            Tail(replacements))

renderMarkdownText(lines) ==
    LET extracted == extractInlineMathPlaceholders(JoinLines(lines))
    IN ApplyReplacements(MARKDOWN_PROCESSOR(extracted.markdownWithPlaceholders),
                         extracted.replacements)

renderSegment(segment) ==
    IF segment.type = "text" THEN renderMarkdownText(segment.lines)
    ELSE IF segment.type = "code"
         THEN (IF Len(segment.language) > 0
               THEN <<"<pre><code class=\"language-">>
                        \o escapeHtmlAttribute(segment.language) \o <<"\">">>
               ELSE <<"<pre><code>">>)
              \o escapeHtml(segment.content) \o <<"</code></pre>">>
         ELSE <<"\\[">> \o segment.content \o <<"\\]">>

renderBodySegments(segments) ==
    JoinLines([i \in DOMAIN segments |-> renderSegment(segments[i])])

formatBodyForAnki(lines) == renderBodySegments(parseBodyTokens(lexBody(lines)))

----------------------------------------------------------------------------
(* Document parser *)

ANKI_LINK_TAG == <<"a", "n", "k", "i", "L", "i", "n", "k">>
ANKI_LINK_MODEL_NAME == "AnkiLink Basic"

NoteFields(Front, Back) == [Front |-> Front, Back |-> Back]

buildNote(Front, Back, deckName) ==
    [deckName |-> deckName, modelName |-> ANKI_LINK_MODEL_NAME,
     fields |-> NoteFields(Front, Back), tags |-> {ANKI_LINK_TAG}]

\* the while loop of parseDocument from line i on
RECURSIVE ParseDocumentFrom(_, _, _)
ParseDocumentFrom(lines, deckName, i) ==
    IF i > Len(lines) THEN <<>>
    ELSE LET pre == parsePreamble(lines[i])
         IN IF ~pre.matched \/ pre.title = <<>>
            THEN ParseDocumentFrom(lines, deckName, i + 1)
            ELSE LET bodyLines == parseBody(Rest(lines, i + 1))
                     body == formatBodyForAnki(bodyLines)
                     note == buildNote(pre.title, body, deckName)
                 IN <<[id |-> IF pre.id # <<>> THEN DigitsToNumber(pre.id) ELSE NoId,
                       index |-> i, note |-> note]>>
                    \o ParseDocumentFrom(lines, deckName, i + Len(bodyLines) + 1)

parseDocument(lines, deckName) == ParseDocumentFrom(lines, deckName, 1)

----------------------------------------------------------------------------
(* JavaScript values that cross the wire *)

\* the value null of an error field
Null == "<null>"
\* if (error): null and the empty string are falsy
Truthy(error) == error # Null /\ error # ""

\* typeof x === "number" fails for the value NotANumber
NotANumber == -1
IsNumber(x) == x # NotANumber

JsString(v) == [isString |-> TRUE, value |-> v]
JsUndefined == [isString |-> FALSE, value |-> <<>>]

\* the deck a document has no value for
NoDeck == <<>>

----------------------------------------------------------------------------
(* The remote store (Anki behind AnkiConnect) *)

Absent == [kind |-> "absent", front |-> <<>>, back |-> <<>>, tags |-> {},
           deck |-> NoDeck, cards |-> <<>>]

RemoteNote(front, back, tags, deck, cards) ==
    [kind |-> "basic", front |-> front, back |-> back, tags |-> tags,
     deck |-> deck, cards |-> cards]

\* one item of a notesInfo result: {} for an id the store does not hold, and
\* the fields of the note's own model for a note that is not Front/Back
NoteInfoFor(rem, id) ==
    LET r == rem[id]
        none == [Front |-> JsUndefined, Back |-> JsUndefined]
    IN IF id \notin DOMAIN rem \/ r.kind = "absent"
       THEN [isObject |-> TRUE, noteId |-> NotANumber, tags |-> {}, cards |-> <<>>,
             hasFields |-> FALSE, fields |-> none]
       ELSE [isObject |-> TRUE, noteId |-> id, tags |-> r.tags, cards |-> r.cards,
             hasFields |-> TRUE,
             fields |-> IF r.kind = "basic"
                        THEN [Front |-> JsString(r.front), Back |-> JsString(r.back)]
                        ELSE none]

\* variant: the tag is compared letter by letter
noteHasTag_CaseSensitive(note, tag) == tag \in note.tags

noteHasTag(note, tag) ==
    \E currentTag \in note.tags : ToLowerCase(currentTag) = ToLowerCase(tag)

\* findNotes "tag:ankiLink"
FindTagged(rem) ==
    {id \in DOMAIN rem : rem[id].kind # "absent" /\ noteHasTag(rem[id], ANKI_LINK_TAG)}

\* findNotes "tag:ankiLink deck:<deckName>": notes with a card in the deck
FindTaggedInDeck(rem, deckName) ==
    {id \in FindTagged(rem) : rem[id].cards # <<>> /\ rem[id].deck = deckName}

----------------------------------------------------------------------------
(* Multi actions and their results *)

Action(name, notes, cards, deck, id, fields, ids) ==
    [action |-> name, notes |-> notes, cards |-> cards, deck |-> deck,
     id |-> id, fields |-> fields, ids |-> ids]

AddNotesAction(notes) == Action("addNotes", notes, <<>>, NoDeck, NoId, NoteFields(<<>>, <<>>), {})
ChangeDeckAction(cards, deck) == Action("changeDeck", <<>>, cards, deck, NoId, NoteFields(<<>>, <<>>), {})
UpdateNoteFieldsAction(id, fields) == Action("updateNoteFields", <<>>, <<>>, NoDeck, id, fields, {})
AddTagsAction(ids) == Action("addTags", <<>>, <<>>, NoDeck, NoId, NoteFields(<<>>, <<>>), ids)
DeleteNotesAction(ids) == Action("deleteNotes", <<>>, <<>>, NoDeck, NoId, NoteFields(<<>>, <<>>), ids)

\* a per-action result: an {error, result} object, or a bare value
ActionResponse(error, isArray, items) ==
    [isResponse |-> TRUE, error |-> error, isArray |-> isArray, items |-> items]
BareResult(isArray, items) ==
    [isResponse |-> FALSE, error |-> Null, isArray |-> isArray, items |-> items]

isAnkiActionResponse(value) == value.isResponse

Thrown(message) == [ok |-> FALSE, error |-> message, isArray |-> FALSE, items |-> <<>>]
Returned(isArray, items) == [ok |-> TRUE, error |-> "", isArray |-> isArray, items |-> items]

unwrapMultiActionResult(item) ==
    IF ~isAnkiActionResponse(item) THEN Returned(item.isArray, item.items)
    ELSE IF Truthy(item.error) THEN Thrown("AnkiConnect multi action failed")
    ELSE Returned(item.isArray, item.items)

\* variant: the shape of the fields is not examined
isValidNoteInfo_IgnoresFields(obj) == obj.isObject /\ IsNumber(obj.noteId)

isValidNoteInfo(obj) ==
    /\ obj.isObject
    /\ IsNumber(obj.noteId)
    /\ obj.hasFields
    /\ obj.fields.Front.isString
    /\ obj.fields.Back.isString

\* variant: only the Front is compared
noteFieldsDiffer_FrontOnly(obsidianFields, ankiFields) ==
    obsidianFields.Front # ankiFields.Front.value

noteFieldsDiffer(obsidianFields, ankiFields) ==
    obsidianFields.Front # ankiFields.Front.value \/ obsidianFields.Back # ankiFields.Back.value

\* variant: the entries are not examined
parseAddedNoteIds_SizeOnly(actionResult, expectedCount) ==
    IF ~actionResult.isArray \/ Len(actionResult.items) # expectedCount
    THEN Thrown("AnkiConnect addNotes returned an unexpected result size")
    ELSE Returned(TRUE, actionResult.items)

parseAddedNoteIds(actionResult, expectedCount) ==
    IF ~actionResult.isArray \/ Len(actionResult.items) # expectedCount
    THEN Thrown("AnkiConnect addNotes returned an unexpected result size")
    ELSE IF \E i \in DOMAIN actionResult.items : ~IsNumber(actionResult.items[i])
    THEN Thrown("AnkiConnect failed to create note")
    ELSE Returned(TRUE, actionResult.items)

----------------------------------------------------------------------------
(* syncVaultNotes: the read side *)

\* app.vault.getMarkdownFiles()
FileOrder == <<1, 2>>

\* variant: the value is taken as it is written
getDeckNameForFile_Untrimmed(meta) ==
    IF meta.isString /\ Len(meta.value) > 0 THEN meta.value ELSE NoDeck

getDeckNameForFile(meta) ==
    IF meta.isString /\ Len(Trim(meta.value)) > 0 THEN Trim(meta.value) ELSE NoDeck

FileDecks(vlt) == [f \in Files |-> getDeckNameForFile(vlt[f].meta)]

DecksInUse(fileDecks) == {fileDecks[f] : f \in Files} \ {NoDeck}

\* text.split("\n")
RECURSIVE SplitLines(_)
SplitLines(text) ==
    IF \A i \in DOMAIN text : text[i] # NL THEN <<text>>
    ELSE LET n == CHOOSE i \in DOMAIN text :
                      text[i] = NL /\ \A j \in 1..(i - 1) : text[j] # NL
         IN <<SubSeq(text, 1, n - 1)>> \o SplitLines(Rest(text, n + 1))

RECURSIVE LoadContextsFrom(_, _, _)
LoadContextsFrom(vlt, fileDecks, k) ==
    IF k > Len(FileOrder) THEN <<>>
    ELSE LET file == FileOrder[k]
             deckName == fileDecks[file]
             lines == vlt[file].lines
             notesData == parseDocument(lines, deckName)
         IN (IF deckName = NoDeck \/ Len(notesData) = 0 THEN <<>>
             ELSE <<[file |-> file, deckName |-> deckName, lines |-> lines,
                     notesData |-> notesData, linesModified |-> FALSE]>>)
            \o LoadContextsFrom(vlt, fileDecks, k + 1)

loadSyncContexts(vlt, fileDecks) == LoadContextsFrom(vlt, fileDecks, 1)

\* the identifiers of all contexts' notes
ReferencedIds(syncContexts) ==
    UNION {{syncContexts[c].notesData[n].id : n \in DOMAIN syncContexts[c].notesData} :
            c \in DOMAIN syncContexts} \ {NoId}

FindNotesAction(deck) ==
    Action("findNotes", <<>>, <<>>, deck, NoId, NoteFields(<<>>, <<>>), {})
NotesInfoAction(ids) ==
    Action("notesInfo", <<>>, <<>>, NoDeck, NoId, NoteFields(<<>>, <<>>), ids)

\* the elements of a set, one after the other
RECURSIVE SeqOf(_)
SeqOf(S) ==
    IF S = {} THEN <<>>
    ELSE LET x == CHOOSE y \in S : TRUE IN <<x>> \o SeqOf(S \ {x})

\* variant: one notesInfo per referenced identifier
ReadActions_PerNote(syncContexts, decksInUse) ==
    <<FindNotesAction(NoDeck)>>
    \o [k \in 1..Cardinality(ReferencedIds(syncContexts)) |->
           NotesInfoAction({SeqOf(ReferencedIds(syncContexts))[k]})]
    \o [k \in 1..Cardinality(decksInUse) |-> FindNotesAction(SeqOf(decksInUse)[k])]

\* the actions of the bulk read, lines 190-206: the managed-tag query, a
\* notesInfo over the referenced identifiers if there are any, and one
\* query per deck in use
ReadActions(syncContexts, decksInUse) ==
    <<FindNotesAction(NoDeck)>>
    \o (IF ReferencedIds(syncContexts) # {}
        THEN <<NotesInfoAction(ReferencedIds(syncContexts))>> ELSE <<>>)
    \o [k \in 1..Cardinality(decksInUse) |-> FindNotesAction(SeqOf(decksInUse)[k])]

\* the result of the bulk read against the store rem
loadGlobalReadState(syncContexts, decksInUse, rem) ==
    LET allExistingNoteIds == ReferencedIds(syncContexts)
    IN [taggedNoteIdsAtStart |-> FindTagged(rem),
        existingNotesById |->
            [id \in {i \in allExistingNoteIds : isValidNoteInfo(NoteInfoFor(rem, i))}
                |-> NoteInfoFor(rem, id)],
        notesInDeckByName |-> [d \in decksInUse |-> FindTaggedInDeck(rem, d)]]

----------------------------------------------------------------------------
(* syncVaultNotes: planning the mutation batch *)

EmptyPlan(globalReadState) ==
    [notesToCreate |-> <<>>, noteMutationActions |-> <<>>, noteIdsToTag |-> {},
     seenNoteIds |-> {}, totalModified |-> 0,
     notesInDeckByName |-> globalReadState.notesInDeckByName,
     staged |-> {}]

Staged(kind, context, noteData) ==
    [kind |-> kind, file |-> context.file, index |-> noteData.index]

\* notesToCreate.push({ context, noteData })
StageCreate(acc, c, context, noteData) ==
    [acc EXCEPT !.notesToCreate = Append(@, [context |-> c, noteData |-> noteData]),
                !.staged = @ \cup {Staged("create", context, noteData)}]

\* variant: the deck query is not consulted
NeedsDeckChange_IgnoresQuery(ankiNote, notesInDeck) == Len(ankiNote.cards) > 0

\* the condition under which a changeDeck is pushed
NeedsDeckChange(ankiNote, notesInDeck) ==
    ankiNote.noteId \notin notesInDeck /\ Len(ankiNote.cards) > 0

\* variant: every pushed action is counted
ModifiedIncrement_PerAction(move, update) ==
    (IF move THEN 1 ELSE 0) + (IF update THEN 1 ELSE 0)

\* lines 123-125: a note counts once, whatever was pushed for it
ModifiedIncrement(move, update) == IF move \/ update THEN 1 ELSE 0

\* lines 107-125 for a valid note that carries the tag
StageMutations(acc, context, noteData, ankiNote) ==
    LET move == NeedsDeckChange(ankiNote, acc.notesInDeckByName[context.deckName])
        update == noteFieldsDiffer(noteData.note.fields, ankiNote.fields)
    IN [acc EXCEPT
          !.noteMutationActions =
              @ \o (IF move THEN <<ChangeDeckAction(ankiNote.cards, context.deckName)>>
                    ELSE <<>>)
                \o (IF update
                    THEN <<UpdateNoteFieldsAction(ankiNote.noteId, noteData.note.fields)>>
                    ELSE <<>>),
          !.notesInDeckByName[context.deckName] =
              IF move THEN @ \cup {ankiNote.noteId} ELSE @,
          !.totalModified = @ + ModifiedIncrement(move, update),
          !.staged = @ \cup (IF move THEN {Staged("move", context, noteData)} ELSE {})
                       \cup (IF update THEN {Staged("update", context, noteData)} ELSE {})]

\* variant: the loop does not continue after tagging
StageTag_FallsThrough(acc, context, noteData, ankiNote) ==
    StageMutations([acc EXCEPT !.noteIdsToTag = @ \cup {ankiNote.noteId},
                               !.staged = @ \cup {Staged("tag", context, noteData)}],
                   context, noteData, ankiNote)

\* noteIdsToTag.add(ankiNote.noteId)
StageTag(acc, context, noteData, ankiNote) ==
    [acc EXCEPT !.noteIdsToTag = @ \cup {ankiNote.noteId},
                !.staged = @ \cup {Staged("tag", context, noteData)}]

\* the body of the inner loop for one parsed note
PlanNote(acc, globalReadState, c, context, noteData) ==
    IF noteData.id = NoId THEN StageCreate(acc, c, context, noteData)
    ELSE IF noteData.id \notin DOMAIN globalReadState.existingNotesById
    THEN StageCreate(acc, c, context, noteData)
    ELSE LET ankiNote == globalReadState.existingNotesById[noteData.id]
             seen == [acc EXCEPT !.seenNoteIds = @ \cup {ankiNote.noteId}]
         IN IF ~noteHasTag(ankiNote, ANKI_LINK_TAG)
            THEN StageTag(seen, context, noteData, ankiNote)
            ELSE StageMutations(seen, context, noteData, ankiNote)

\* the two nested loops, from note n of context c on
RECURSIVE PlanFrom(_, _, _, _, _)
PlanFrom(acc, globalReadState, syncContexts, c, n) ==
    IF c > Len(syncContexts) THEN acc
    ELSE IF n > Len(syncContexts[c].notesData)
         THEN PlanFrom(acc, globalReadState, syncContexts, c + 1, 1)
         ELSE PlanFrom(PlanNote(acc, globalReadState, c, syncContexts[c],
                                syncContexts[c].notesData[n]),
                       globalReadState, syncContexts, c, n + 1)

\* variant: the filter keeps the identifiers that were seen
OrphanedNoteIds_KeepsSeen(taggedNoteIdsAtStart, seenNoteIds) ==
    taggedNoteIdsAtStart \cap seenNoteIds

\* line 129
OrphanedNoteIds(taggedNoteIdsAtStart, seenNoteIds) == taggedNoteIdsAtStart \ seenNoteIds

\* variant: a single pending create is not sent
MutationActions_SkipsSingle(notesToCreate, noteMutationActions, noteIdsToTag, orphanedNoteIds) ==
    (IF Len(notesToCreate) > 1
     THEN <<AddNotesAction([i \in DOMAIN notesToCreate |-> notesToCreate[i].noteData.note])>>
     ELSE <<>>)
    \o noteMutationActions
    \o (IF noteIdsToTag # {} THEN <<AddTagsAction(noteIdsToTag)>> ELSE <<>>)
    \o (IF orphanedNoteIds # {} THEN <<DeleteNotesAction(orphanedNoteIds)>> ELSE <<>>)

\* variant: addTags and deleteNotes are sent whether or not they have work
MutationActions_AlwaysAll(notesToCreate, noteMutationActions, noteIdsToTag, orphanedNoteIds) ==
    (IF Len(notesToCreate) > 0
     THEN <<AddNotesAction([i \in DOMAIN notesToCreate |-> notesToCreate[i].noteData.note])>>
     ELSE <<>>)
    \o noteMutationActions
    \o <<AddTagsAction(noteIdsToTag), DeleteNotesAction(orphanedNoteIds)>>

\* lines 133-148
MutationActions(notesToCreate, noteMutationActions, noteIdsToTag, orphanedNoteIds) ==
    (IF Len(notesToCreate) > 0
     THEN <<AddNotesAction([i \in DOMAIN notesToCreate |-> notesToCreate[i].noteData.note])>>
     ELSE <<>>)
    \o noteMutationActions
    \o (IF noteIdsToTag # {} THEN <<AddTagsAction(noteIdsToTag)>> ELSE <<>>)
    \o (IF orphanedNoteIds # {} THEN <<DeleteNotesAction(orphanedNoteIds)>> ELSE <<>>)

\* line 169
SyncSummary(createdNoteIds, totalModified, orphanedNoteIds) ==
    [added |-> Len(createdNoteIds), modified |-> totalModified,
     deleted |-> Cardinality(orphanedNoteIds)]

\* everything syncVaultNotes has computed when it sends the mutation batch
PlanBatch(syncContexts, globalReadState) ==
    LET acc == PlanFrom(EmptyPlan(globalReadState), globalReadState, syncContexts, 1, 1)
        orphanedNoteIds ==
            OrphanedNoteIds(globalReadState.taggedNoteIdsAtStart, acc.seenNoteIds)
        mutationActions ==
            MutationActions(acc.notesToCreate, acc.noteMutationActions,
                            acc.noteIdsToTag, orphanedNoteIds)
    IN [notesToCreate |-> acc.notesToCreate,
        noteIdsToTag |-> acc.noteIdsToTag,
        seenNoteIds |-> acc.seenNoteIds,
        totalModified |-> acc.totalModified,
        orphanedNoteIds |-> orphanedNoteIds,
        mutationActions |-> mutationActions,
        addNotesActionIndex |-> IF Len(acc.notesToCreate) > 0 THEN 1 ELSE 0,
        staged |-> acc.staged]

\* variant: no space between the identifier and the title
HeaderLine_NoSpace(noteId, Front) ==
    <<">", " ", FC, " ", "%", "%">> \o NumberToDigits(noteId) \o <<"%", "%">> \o Front

\* variant: the identifier is written after the title
HeaderLine_IdAfterTitle(noteId, Front) ==
    <<">", " ", FC, " ">> \o Front \o <<" ", "%", "%">> \o NumberToDigits(noteId) \o <<"%", "%">>

\* `> [!flashcard] %%${noteId}%% ${Front}`
HeaderLine(noteId, Front) ==
    <<">", " ", FC, " ", "%", "%">> \o NumberToDigits(noteId) \o <<"%", "%", " ">> \o Front

\* lines with the identifiers of the created notes spliced in
RECURSIVE ApplyCreatedFrom(_, _, _, _)
ApplyCreatedFrom(syncContexts, notesToCreate, createdNoteIds, i) ==
    IF i > Len(notesToCreate) THEN syncContexts
    ELSE LET pending == notesToCreate[i]
             noteId == createdNoteIds[i]
             header == HeaderLine(noteId, pending.noteData.note.fields.Front)
         IN ApplyCreatedFrom(
                [syncContexts EXCEPT
                    ![pending.context].lines[pending.noteData.index] = header,
                    ![pending.context].linesModified = TRUE],
                notesToCreate, createdNoteIds, i + 1)

\* variant: the identifiers are taken from the end of the result
applyCreatedNoteIds_Reversed(syncContexts, notesToCreate, createdNoteIds) ==
    ApplyCreatedFrom(syncContexts, notesToCreate,
                     [i \in DOMAIN createdNoteIds |->
                         createdNoteIds[Len(createdNoteIds) + 1 - i]], 1)

applyCreatedNoteIds(syncContexts, notesToCreate, createdNoteIds) ==
    ApplyCreatedFrom(syncContexts, notesToCreate, createdNoteIds, 1)

----------------------------------------------------------------------------
(* The remote store executing one action of a multi request *)

RECURSIVE AddNotesTo(_, _, _)
AddNotesTo(rem, notes, id) ==
    IF notes = <<>> THEN rem
    ELSE AddNotesTo([rem EXCEPT ![id] = RemoteNote(notes[1].fields.Front,
                                                   notes[1].fields.Back, notes[1].tags,
                                                   notes[1].deckName, <<id>>)],
                    Tail(notes), id + 1)

\* a card carries the identifier of its note
ChangeDeckOf(rem, cards, deck) ==
    [id \in DOMAIN rem |->
        IF rem[id].kind # "absent" /\ \E k \in DOMAIN cards : cards[k] = id
        THEN [rem[id] EXCEPT !.deck = deck] ELSE rem[id]]

\* store and next identifier after the action, with the action's result
Execute(rem, next, a) ==
    CASE a.action = "addNotes" ->
            [remote |-> AddNotesTo(rem, a.notes, next), nextId |-> next + Len(a.notes),
             isArray |-> TRUE, items |-> [i \in DOMAIN a.notes |-> next + i - 1]]
      [] a.action = "changeDeck" ->
            [remote |-> ChangeDeckOf(rem, a.cards, a.deck), nextId |-> next,
             isArray |-> FALSE, items |-> <<>>]
      [] a.action = "updateNoteFields" ->
            [remote |-> IF a.id \in DOMAIN rem /\ rem[a.id].kind = "basic"
                        THEN [rem EXCEPT ![a.id].front = a.fields.Front,
                                         ![a.id].back = a.fields.Back]
                        ELSE rem,
             nextId |-> next, isArray |-> FALSE, items |-> <<>>]
      [] a.action = "addTags" ->
            [remote |-> [id \in DOMAIN rem |->
                            IF id \in a.ids /\ rem[id].kind # "absent"
                            THEN [rem[id] EXCEPT !.tags = @ \cup {ANKI_LINK_TAG}]
                            ELSE rem[id]],
             nextId |-> next, isArray |-> FALSE, items |-> <<>>]
      [] OTHER ->
            [remote |-> [id \in DOMAIN rem |-> IF id \in a.ids THEN Absent ELSE rem[id]],
             nextId |-> next, isArray |-> FALSE, items |-> <<>>]

\* the actions from index i on, executed in order; the action at index failAt
\* is refused by the store and reports an error instead of a result
RECURSIVE ExecuteFrom(_, _, _, _, _, _)
ExecuteFrom(rem, next, actions, i, failAt, results) ==
    IF i > Len(actions) THEN [remote |-> rem, nextId |-> next, results |-> results]
    ELSE IF i = failAt
         THEN ExecuteFrom(rem, next, actions, i + 1, failAt,
                          Append(results, ActionResponse("refused", FALSE, <<>>)))
         ELSE LET e == Execute(rem, next, actions[i])
              IN ExecuteFrom(e.remote, e.nextId, actions, i + 1, failAt,
                             Append(results, ActionResponse(Null, e.isArray, e.items)))

----------------------------------------------------------------------------
(* State of one run of syncVaultNotes *)

NoSummary == [added |-> -1, modified |-> -1, deleted |-> -1]

NoPlan ==
    [notesToCreate |-> <<>>, noteIdsToTag |-> {}, seenNoteIds |-> {},
     totalModified |-> 0, orphanedNoteIds |-> {}, mutationActions |-> <<>>,
     addNotesActionIndex |-> 0, staged |-> {}]

NoRun ==
    [fileDecks |-> [f \in Files |-> NoDeck], decksInUse |-> {},
     syncContexts |-> <<>>,
     globalReadState |-> [taggedNoteIdsAtStart |-> {}, existingNotesById |-> <<>>,
                          notesInDeckByName |-> <<>>],
     plan |-> NoPlan, createdNoteIds |-> <<>>, written |-> <<>>,
     summary |-> NoSummary, error |-> "",
     setup |-> [deckNamesSent |-> FALSE, createDeck |-> {}],
     notices |-> <<>>,
     requests |-> <<>>]

NoSecond ==
    [pc |-> "none", fileDecks |-> [f \in Files |-> NoDeck], decksInUse |-> {},
     syncContexts |-> <<>>, globalReadState |-> NoRun.globalReadState,
     plan |-> NoPlan, createdNoteIds |-> <<>>]

\* the outcome of a request to the transport: resolved with the response, or
\* rejected with an error
Resolved == [rejected |-> FALSE, error |-> ""]
RejectedWith(error) == [rejected |-> TRUE, error |-> error]

\* no client call made
NoHttp ==
    [stage |-> "none", calls |-> <<>>, sent |-> <<>>,
     transport |-> <<Resolved, Resolved>>, outcome |-> Resolved]

NoWire == [error |-> Null, isArray |-> FALSE, result |-> <<>>]

NoHist ==
    [edits |-> 0, interference |-> 0, quiet |-> 0,
     removed |-> [stage |-> "none", id |-> NoId, sole |-> FALSE, baseline |-> 0],
     lastCreated |-> {},
     mark |-> 0,
     aborted |-> [stage |-> "none", strays |-> {}]]

\* a change of the vault or of the store between two runs
Disturbed(h) ==
    [h EXCEPT !.quiet = 0, !.removed = NoHist.removed, !.lastCreated = {},
              !.mark = 0, !.aborted = NoHist.aborted]

Resting == pc \in {"idle", "done", "failed"}

----------------------------------------------------------------------------
(* The documents the user starts with *)

Ha == <<">", " ", FC, " ", "a">>
Hb == <<">", " ", FC, " ", "b">>
Bx == <<">", " ", "x">>

DeckD == <<"D">>
DeckE == <<"E">>

Doc(meta, lines) == [meta |-> meta, lines |-> lines]

InitVaults ==
    {[f \in Files |-> IF f = 1 THEN d1 ELSE d2] :
        d1 \in {Doc(JsString(<<" ", "D">>), <<Ha, Bx>>)},
        d2 \in {Doc(JsString(DeckE), <<<<"t">>, Hb, Bx>>),
                Doc(JsUndefined, <<Hb>>)}}

Init ==
    /\ vault \in InitVaults
    /\ remote = [id \in NoteIds |-> Absent]
    /\ remoteDecks = {}
    /\ nextId = FirstId
    /\ pc = "idle"
    /\ run = NoRun
    /\ wire = NoWire
    /\ hist = NoHist
    /\ second = NoSecond
    /\ remoteModels = {}
    /\ http = NoHttp

----------------------------------------------------------------------------
(* The run, step by step *)

\* notes a run started now would parse
NotesInScope(vlt) ==
    LET contexts == loadSyncContexts(vlt, FileDecks(vlt))
        Count[c \in 0..Len(contexts)] ==
            IF c = 0 THEN 0 ELSE Count[c - 1] + Len(contexts[c].notesData)
    IN Count[Len(contexts)]

\* main.ts 130: new Notice("Starting flashcard sync...")
StartNotice == [kind |-> "start", message |-> "", summary |-> NoSummary]

\* main.ts 133-135: the notice with the three counts
SummaryNotice(summary) == [kind |-> "summary", message |-> "", summary |-> summary]

getErrorMessage(error) == IF error # "" THEN error ELSE "Unknown error"

\* variant: the error is not reported
NoticesOnReject_Silent(error) == <<>>

\* main.ts 136-139: the notices of the catch block
NoticesOnReject(error) ==
    <<[kind |-> "failure", message |-> getErrorMessage(error), summary |-> NoSummary]>>

\* the identifiers written in the headers of the documents
HeaderIds(lines) ==
    {DigitsToNumber(parsePreamble(lines[i]).id) :
        i \in {k \in 1..Len(lines) :
                  LET pre == parsePreamble(lines[k])
                  IN pre.matched /\ pre.title # <<>> /\ pre.id # <<>>}}

LocalIds == UNION {HeaderIds(vault[f].lines) : f \in Files}

\* records the run in progress has created whose identifier is in no header
Strays ==
    IF hist.mark = 0 THEN {}
    ELSE {id \in hist.mark..(nextId - 1) : remote[id].kind # "absent"} \ LocalIds

\* the history after a rejected run: what it left behind in the store
Rejected(h) ==
    LET strays == Strays
    IN [Disturbed(h) EXCEPT
          !.aborted = IF strays # {} THEN [stage |-> "aborted", strays |-> strays]
                      ELSE NoHist.aborted]

Abort(message) ==
    /\ pc' = "failed"
    /\ run' = [NoRun EXCEPT !.error = message,
                            !.notices = run.notices \o NoticesOnReject(message)]
    /\ wire' = NoWire
    /\ hist' = Rejected(hist)

\* syncVaultNotes is called: decks of all files are resolved (lines 64-73)
StartSync ==
    /\ Resting
    /\ nextId + NotesInScope(vault) - 1 <= LastId
    /\ pc' = "setup"
    /\ run' = [NoRun EXCEPT !.fileDecks = FileDecks(vault),
                            !.decksInUse = DecksInUse(FileDecks(vault)),
                            !.notices = <<StartNotice>>]
    /\ hist' = [hist EXCEPT
                  !.removed = IF @.stage = "edited" THEN [@ EXCEPT !.stage = "running"]
                              ELSE NoHist.removed,
                  !.mark = nextId,
                  !.aborted = IF @.stage = "aborted" THEN [@ EXCEPT !.stage = "rerun"]
                              ELSE NoHist.aborted]
    /\ UNCHANGED <<http, remoteModels, second, vault, remote, remoteDecks, nextId, wire>>

\* variant: every deck in use is created
ensureDecksExist_CreatesAll(deckNames, existingDecks) ==
    [deckNamesSent |-> deckNames # {}, createDeck |-> deckNames]

\* the requests ensureDecksExist sends: deckNames unless no deck is in use,
\* and createDeck for the decks the answer does not list
ensureDecksExist(deckNames, existingDecks) ==
    [deckNamesSent |-> deckNames # {},
     createDeck |-> IF deckNames = {} THEN {} ELSE deckNames \ existingDecks]

\* a request sent to AnkiConnect: its action and, for multi, the actions in it
Request(name, actions) == [request |-> name, actions |-> actions]

\* the requests ensureDecksExist sends, in order
DeckRequests(setup) ==
    (IF setup.deckNamesSent THEN <<Request("deckNames", <<>>)>> ELSE <<>>)
    \o [k \in 1..Cardinality(setup.createDeck) |-> Request("createDeck", <<>>)]

\* the requests ensureModelIsConfigured sends: createModel only when the
\* answer to modelNames does not list the model
ensureModelIsConfigured(modelNames) ==
    <<Request("modelNames", <<>>)>>
    \o (IF ANKI_LINK_MODEL_NAME \notin modelNames
        THEN <<Request("createModel", <<>>)>> ELSE <<>>)
    \o <<Request("updateModelTemplates", <<>>), Request("updateModelStyling", <<>>)>>

\* ensureDecksExist and ensureModelIsConfigured succeed
EnsureSetup ==
    /\ pc = "setup"
    /\ LET requests == ensureDecksExist(run.decksInUse, remoteDecks)
       IN /\ run' = [run EXCEPT
                        !.setup = requests,
                        !.requests = @ \o DeckRequests(requests)
                                       \o ensureModelIsConfigured(remoteModels)]
          /\ remoteDecks' = remoteDecks \cup requests.createDeck
    /\ remoteModels' = remoteModels \cup {ANKI_LINK_MODEL_NAME}
    /\ pc' = "load"
    /\ UNCHANGED <<http, second, vault, remote, nextId, wire, hist>>

\* a setup response carries an error
SetupFails ==
    /\ pc = "setup"
    /\ Abort("AnkiConnect: setup")
    /\ UNCHANGED <<http, remoteModels, second, vault, remote, remoteDecks, nextId>>

LoadSyncContexts ==
    /\ pc = "load"
    /\ run' = [run EXCEPT !.syncContexts = loadSyncContexts(vault, run.fileDecks)]
    /\ pc' = "read"
    /\ UNCHANGED <<http, remoteModels, second, vault, remote, remoteDecks, nextId, wire, hist>>

LoadGlobalReadState ==
    /\ pc = "read"
    /\ run' = [run EXCEPT
                  !.globalReadState =
                      loadGlobalReadState(run.syncContexts, run.decksInUse, remote),
                  !.requests =
                      Append(@, Request("multi",
                                        ReadActions(run.syncContexts, run.decksInUse)))]
    /\ pc' = "plan"
    /\ UNCHANGED <<http, remoteModels, second, vault, remote, remoteDecks, nextId, wire, hist>>

\* the bulk read response carries an error or has an unexpected shape
ReadFails ==
    /\ pc = "read"
    /\ Abort("AnkiConnect multi")
    /\ UNCHANGED <<http, remoteModels, second, vault, remote, remoteDecks, nextId>>

\* lines 82-153: the batch is computed and, unless empty, sent
SendBatch ==
    /\ pc = "plan"
    /\ LET plan == PlanBatch(run.syncContexts, run.globalReadState)
       IN /\ run' = [run EXCEPT
                        !.plan = plan,
                        !.requests = IF Len(plan.mutationActions) > 0
                                     THEN Append(@, Request("multi", plan.mutationActions))
                                     ELSE @]
          /\ pc' = IF Len(plan.mutationActions) > 0 THEN "sent" ELSE "write"
    /\ UNCHANGED <<http, remoteModels, second, vault, remote, remoteDecks, nextId, wire, hist>>

\* the addNotes result of an executed batch when the store could not create
\* the note at position fault (null in its place), or, for a fault past the
\* last position, answers a list that lacks the last entry
WithAddNotesFault(e, actions, fault) ==
    IF fault = 0 \/ actions = <<>> THEN e
    ELSE IF actions[1].action # "addNotes" \/ e.results[1].error # Null THEN e
    ELSE LET items == e.results[1].items
             n == Len(items)
             lost == IF fault > n THEN items[n] ELSE items[fault]
             answered == IF fault > n THEN SubSeq(items, 1, n - 1)
                         ELSE [items EXCEPT ![fault] = NotANumber]
         IN [e EXCEPT !.remote[lost] = Absent, !.results[1].items = answered]

\* the store executes the batch; it may refuse one of the actions;
\* it may fail to create one of the notes
RemoteMulti ==
    /\ pc = "sent"
    /\ \E failAt \in 0..Len(run.plan.mutationActions),
          fault \in 0..(Len(run.plan.notesToCreate) + 1) :
          LET e == WithAddNotesFault(
                       ExecuteFrom(remote, nextId, run.plan.mutationActions, 1, failAt, <<>>),
                       run.plan.mutationActions, fault)
          IN /\ failAt = 0 \/ fault = 0
             /\ fault # 0 => hist.interference < MaxInterference
             /\ remote' = e.remote
             /\ nextId' = e.nextId
             /\ wire' = [error |-> Null, isArray |-> TRUE, result |-> e.results]
             /\ hist' = IF fault = 0 THEN hist
                        ELSE [hist EXCEPT !.interference = @ + 1]
    /\ pc' = "recv"
    /\ UNCHANGED <<http, remoteModels, second, vault, remoteDecks, run>>

\* the store rejects the multi request as a whole
RemoteMultiRejects ==
    /\ pc = "sent"
    /\ wire' = [error |-> "rejected", isArray |-> FALSE, result |-> <<>>]
    /\ pc' = "recv"
    /\ UNCHANGED <<http, remoteModels, second, vault, remote, remoteDecks, nextId, run, hist>>

sendMultiActions(multiRes, actions) ==
    IF Truthy(multiRes.error) THEN Thrown("AnkiConnect multi error")
    ELSE IF ~multiRes.isArray \/ Len(multiRes.result) # Len(actions)
    THEN Thrown("AnkiConnect multi returned an unexpected result size")
    ELSE Returned(TRUE, multiRes.result)

\* lines 153-162 on the response: the created identifiers, or the error thrown
CreatedNoteIds(plan, multiRes) ==
    LET mutationResults == sendMultiActions(multiRes, plan.mutationActions)
    IN IF ~mutationResults.ok THEN mutationResults
       ELSE IF plan.addNotesActionIndex = 0 THEN Returned(TRUE, <<>>)
       ELSE LET unwrapped ==
                    unwrapMultiActionResult(mutationResults.items[plan.addNotesActionIndex])
            IN IF ~unwrapped.ok THEN unwrapped
               ELSE parseAddedNoteIds(unwrapped, Len(plan.notesToCreate))

ReceiveResults ==
    /\ pc = "recv"
    /\ LET created == CreatedNoteIds(run.plan, wire)
       IN IF ~created.ok THEN Abort(created.error)
          ELSE IF Len(run.plan.notesToCreate) # Len(created.items)
          THEN Abort("AnkiConnect addNotes returned an unexpected number of note IDs")
          ELSE /\ run' = [run EXCEPT
                            !.createdNoteIds = created.items,
                            !.syncContexts = applyCreatedNoteIds(run.syncContexts,
                                                run.plan.notesToCreate, created.items)]
               /\ pc' = "write"
               /\ wire' = NoWire
               /\ hist' = hist
    /\ UNCHANGED <<http, remoteModels, second, vault, remote, remoteDecks, nextId>>

\* variant: every context is written
PendingWrites_AllContexts ==
    {c \in DOMAIN run.syncContexts :
        \A k \in DOMAIN run.written : run.written[k] # run.syncContexts[c].file}

\* contexts still to be written, in order
PendingWrites ==
    {c \in DOMAIN run.syncContexts :
        /\ run.syncContexts[c].linesModified
        /\ \A k \in DOMAIN run.written : run.written[k] # run.syncContexts[c].file}

\* one pass of the loop of lines 163-166: app.vault.modify
WriteDocument ==
    /\ pc = "write"
    /\ PendingWrites # {}
    /\ LET c == CHOOSE c \in PendingWrites : \A d \in PendingWrites : c <= d
           context == run.syncContexts[c]
       IN /\ vault' = [vault EXCEPT
                         ![context.file].lines = SplitLines(JoinLines(context.lines))]
          /\ run' = [run EXCEPT !.written = Append(@, context.file)]
    /\ UNCHANGED <<http, remoteModels, second, remote, remoteDecks, nextId, pc, wire, hist>>

\* app.vault.modify rejects: the run ends with the documents written so far
WriteFails ==
    /\ pc = "write"
    /\ PendingWrites # {}
    /\ hist.interference < MaxInterference
    /\ pc' = "failed"
    /\ run' = [NoRun EXCEPT !.error = "vault.modify",
                            !.notices = run.notices \o NoticesOnReject("vault.modify")]
    /\ hist' = [Rejected(hist) EXCEPT !.interference = hist.interference + 1]
    /\ UNCHANGED <<http, remoteModels, second, vault, remote, remoteDecks, nextId, wire>>

CreatedRecords ==
    {[file |-> run.syncContexts[run.plan.notesToCreate[i].context].file,
      index |-> run.plan.notesToCreate[i].noteData.index,
      fields |-> run.plan.notesToCreate[i].noteData.note.fields,
      id |-> run.createdNoteIds[i]] : i \in DOMAIN run.createdNoteIds}

\* lines 168-169: the summary is returned
Finish ==
    /\ pc = "write"
    /\ PendingWrites = {}
    /\ LET summary == SyncSummary(run.createdNoteIds, run.plan.totalModified,
                                  run.plan.orphanedNoteIds)
       IN run' = [run EXCEPT !.summary = summary,
                             !.notices = Append(@, SummaryNotice(summary))]
    /\ pc' = "done"
    /\ hist' = [hist EXCEPT !.quiet = IF @ < 2 THEN @ + 1 ELSE @,
                            !.lastCreated = CreatedRecords,
                            !.mark = 0]
    /\ UNCHANGED <<http, remoteModels, second, vault, remote, remoteDecks, nextId, wire>>

----------------------------------------------------------------------------
(* The user edits the vault between runs *)

\* the flashcard blocks of a file: header index and number of lines
Blocks(f) ==
    LET notes == parseDocument(vault[f].lines, NoDeck)
    IN {[index |-> notes[n].index, id |-> notes[n].id,
         len |-> 1 + Len(parseBody(Rest(vault[f].lines, notes[n].index + 1)))] :
            n \in DOMAIN notes}

BlockLines(f, b) == SubSeq(vault[f].lines, b.index, b.index + b.len - 1)

WithoutBlock(lines, b) ==
    SubSeq(lines, 1, b.index - 1) \o Rest(lines, b.index + b.len)

Edited(h) == [Disturbed(h) EXCEPT !.edits = h.edits + 1]

MayEdit == Resting /\ hist.edits < MaxEdits

\* number of identifiers the next run would delete as orphans
OrphansNow(vlt) ==
    LET contexts == loadSyncContexts(vlt, FileDecks(vlt))
        state == loadGlobalReadState(contexts, DecksInUse(FileDecks(vlt)), remote)
    IN Cardinality(PlanBatch(contexts, state).orphanedNoteIds)

InScope(f) == FileDecks(vault)[f] # NoDeck

\* block b of file f is a flashcard of a document in scope, and no other
\* flashcard of a document in scope carries its identifier
SoleInScope(f, b) ==
    /\ InScope(f)
    /\ \A g \in Files : \A o \in Blocks(g) :
          (InScope(g) /\ o.id = b.id) => (g = f /\ o.index = b.index)

\* a flashcard block is deleted from its document
RemoveBlock ==
    /\ MayEdit
    /\ \E f \in Files : \E b \in Blocks(f) :
          /\ vault' = [vault EXCEPT ![f].lines = WithoutBlock(@, b)]
          /\ hist' = [Edited(hist) EXCEPT
                        !.removed =
                            IF /\ pc = "done" /\ hist.quiet >= 1
                               /\ b.id \in FindTagged(remote)
                            THEN [stage |-> "edited", id |-> b.id,
                                  sole |-> SoleInScope(f, b),
                                  baseline |-> OrphansNow(vault)]
                            ELSE NoHist.removed]
    /\ UNCHANGED <<http, remoteModels, second, remote, remoteDecks, nextId, pc, run, wire>>

\* a flashcard block is copied to the end of a document, identifier included
CopyBlock ==
    /\ MayEdit
    /\ \E f \in Files, g \in Files : \E b \in Blocks(f) :
          vault' = [vault EXCEPT ![g].lines = @ \o BlockLines(f, b)]
    /\ hist' = Edited(hist)
    /\ UNCHANGED <<http, remoteModels, second, remote, remoteDecks, nextId, pc, run, wire>>

\* the title of a flashcard is rewritten
EditTitle ==
    /\ MayEdit
    /\ \E f \in Files : \E b \in Blocks(f) :
          LET line == vault[f].lines[b.index]
              title == parsePreamble(line).title
          IN /\ title # <<"c">>
             /\ vault' = [vault EXCEPT ![f].lines[b.index] =
                            SubSeq(line, 1, Len(line) - Len(title)) \o <<"c">>]
    /\ hist' = Edited(hist)
    /\ UNCHANGED <<http, remoteModels, second, remote, remoteDecks, nextId, pc, run, wire>>

\* the body of a flashcard is rewritten: a line is added to an empty body,
\* a body with lines is emptied
EditBody ==
    /\ MayEdit
    /\ \E f \in Files : \E b \in Blocks(f) :
          vault' = [vault EXCEPT ![f].lines =
                      SubSeq(@, 1, b.index)
                      \o (IF b.len = 1 THEN <<Bx>> ELSE <<>>)
                      \o Rest(@, b.index + b.len)]
    /\ hist' = Edited(hist)
    /\ UNCHANGED <<http, remoteModels, second, remote, remoteDecks, nextId, pc, run, wire>>

\* the "anki deck" front-matter value of a document is changed or removed
SetDeck ==
    /\ MayEdit
    /\ \E f \in Files : \E m \in {JsUndefined, JsString(<<" ">>), JsString(DeckD), JsString(DeckE)} :
          /\ m # vault[f].meta
          /\ vault' = [vault EXCEPT ![f].meta = m]
    /\ hist' = Edited(hist)
    /\ UNCHANGED <<http, remoteModels, second, remote, remoteDecks, nextId, pc, run, wire>>

----------------------------------------------------------------------------
(* The store is changed from the Anki side between runs *)

Interfered(h) == [Disturbed(h) EXCEPT !.interference = h.interference + 1]

MayInterfere == Resting /\ hist.interference < MaxInterference

Present == {id \in NoteIds : remote[id].kind # "absent"}

Interfere(id, record) ==
    /\ MayInterfere
    /\ id \in Present
    /\ record # remote[id]
    /\ remote' = [remote EXCEPT ![id] = record]
    /\ hist' = Interfered(hist)
    /\ UNCHANGED <<http, remoteModels, second, vault, remoteDecks, nextId, pc, run, wire>>

RemoteDelete == \E id \in NoteIds : Interfere(id, Absent)

RemoteRemoveTags == \E id \in NoteIds : Interfere(id, [remote[id] EXCEPT !.tags = {}])

RemoteEditFront == \E id \in NoteIds : Interfere(id, [remote[id] EXCEPT !.front = <<"z">>])

RemoteMove ==
    \E id \in NoteIds, d \in {DeckD, DeckE} : Interfere(id, [remote[id] EXCEPT !.deck = d])

\* the note is given a note type without Front and Back fields
RemoteChangeModel == \E id \in NoteIds : Interfere(id, [remote[id] EXCEPT !.kind = "other"])

\* the cards of the note are removed
RemoteDropCards == \E id \in NoteIds : Interfere(id, [remote[id] EXCEPT !.cards = <<>>])

----------------------------------------------------------------------------

Next ==
    \/ StartSync
    \/ EnsureSetup
    \/ SetupFails
    \/ LoadSyncContexts
    \/ LoadGlobalReadState
    \/ ReadFails
    \/ SendBatch
    \/ RemoteMulti
    \/ RemoteMultiRejects
    \/ ReceiveResults
    \/ WriteDocument
    \/ WriteFails
    \/ Finish
    \/ RemoveBlock
    \/ CopyBlock
    \/ EditTitle
    \/ EditBody
    \/ SetDeck
    \/ RemoteDelete
    \/ RemoteRemoveTags
    \/ RemoteEditFront
    \/ RemoteMove
    \/ RemoteChangeModel
    \/ RemoteDropCards

Spec == Init /\ [][Next]_vars

----------------------------------------------------------------------------
(* The handler is invoked again while a run may be in flight.  The second   *)
(* invocation runs the same engine on the same vault and store; its awaits  *)
(* are taken in four steps.                                                 *)

InFlight == pc \notin {"idle", "done", "failed"}

\* identifiers the run in flight may still ask the store for
Reserved == IF pc \in {"setup", "load", "read", "plan", "sent"}
            THEN NotesInScope(vault) ELSE 0

\* runSyncAndNotify calls syncVaultNotes whatever the state of another call;
\* decks are resolved and set up
SecondStart ==
    /\ second.pc = "none"
    /\ second' = [NoSecond EXCEPT !.pc = "load",
                                  !.fileDecks = FileDecks(vault),
                                  !.decksInUse = DecksInUse(FileDecks(vault))]
    /\ remoteDecks' = remoteDecks \cup DecksInUse(FileDecks(vault))
    /\ UNCHANGED <<http, remoteModels, vault, remote, nextId, pc, run, wire, hist>>

\* loadSyncContexts and loadGlobalReadState of the second invocation
SecondRead ==
    /\ second.pc = "load"
    /\ LET contexts == loadSyncContexts(vault, second.fileDecks)
       IN second' = [second EXCEPT
                        !.pc = "plan",
                        !.syncContexts = contexts,
                        !.globalReadState =
                            loadGlobalReadState(contexts, second.decksInUse, remote)]
    /\ UNCHANGED <<http, remoteModels, vault, remote, remoteDecks, nextId, pc, run, wire, hist>>

\* the second invocation stages its batch, the store executes it, and the
\* created identifiers are put into the line buffers
SecondMutate ==
    /\ second.pc = "plan"
    /\ LET plan == PlanBatch(second.syncContexts, second.globalReadState)
           e == ExecuteFrom(remote, nextId, plan.mutationActions, 1, 0, <<>>)
           created == IF plan.addNotesActionIndex = 0 THEN <<>>
                      ELSE e.results[plan.addNotesActionIndex].items
       IN /\ nextId + Len(plan.notesToCreate) + Reserved - 1 <= LastId
          /\ remote' = e.remote
          /\ nextId' = e.nextId
          /\ second' = [second EXCEPT
                           !.pc = "write",
                           !.plan = plan,
                           !.createdNoteIds = created,
                           !.syncContexts =
                               applyCreatedNoteIds(second.syncContexts,
                                                   plan.notesToCreate, created)]
    /\ UNCHANGED <<http, remoteModels, vault, remoteDecks, pc, run, wire, hist>>

\* the second invocation writes its modified line buffers and returns
SecondWrite ==
    /\ second.pc = "write"
    /\ vault' = [f \in Files |->
                    LET cs == {c \in DOMAIN second.syncContexts :
                                  /\ second.syncContexts[c].file = f
                                  /\ second.syncContexts[c].linesModified}
                    IN IF cs = {} THEN vault[f]
                       ELSE [vault[f] EXCEPT
                               !.lines = SplitLines(JoinLines(
                                   second.syncContexts[CHOOSE c \in cs : TRUE].lines))]]
    /\ second' = [second EXCEPT !.pc = "done"]
    /\ UNCHANGED <<http, remoteModels, remote, remoteDecks, nextId, pc, run, wire, hist>>

NextReentrant ==
    \/ StartSync
    \/ EnsureSetup
    \/ SetupFails
    \/ LoadSyncContexts
    \/ LoadGlobalReadState
    \/ ReadFails
    \/ SendBatch
    \/ RemoteMulti
    \/ RemoteMultiRejects
    \/ ReceiveResults
    \/ WriteDocument
    \/ Finish
    \/ SecondStart
    \/ SecondRead
    \/ SecondMutate
    \/ SecondWrite

SpecReentrant == Init /\ [][NextReentrant]_vars

----------------------------------------------------------------------------
(* Claims *)

\* C1: when a run has completed successfully and the next run, started with
\* no change to the documents or the remote records in between, completes
\* too, the second run's summary is {added: 0, modified: 0, deleted: 0}.
C1_SecondRunIsEmpty ==
    (pc = "done" /\ hist.quiet = 2)
        => run.summary = [added |-> 0, modified |-> 0, deleted |-> 0]

\* the identifiers of the batch's deleteNotes action
DeleteSet ==
    UNION {run.plan.mutationActions[i].ids :
            i \in {k \in DOMAIN run.plan.mutationActions :
                     run.plan.mutationActions[k].action = "deleteNotes"}}

\* the run that follows the removal of one flashcard block has completed
RemovalSynced == pc = "done" /\ hist.removed.stage = "running"

RemovalDeletes ==
    /\ hist.removed.id \in DeleteSet
    /\ run.summary.deleted = hist.removed.baseline + 1

\* C2 as stated: after a flashcard block whose identifier belongs to a
\* managed-tagged record is removed between two runs, the next run has the
\* identifier in its deleteNotes set and deletes one record more than it
\* would have with the block in place.
C2_RemovedBlockIsDeleted == RemovalSynced => RemovalDeletes

\* C2 amended: the same, for a block of a document in sync scope whose
\* identifier no other flashcard of a document in scope carries.
C2_SoleBlockIsDeleted == (RemovalSynced /\ hist.removed.sole) => RemovalDeletes

C2_Witness == RemovalSynced /\ hist.removed.sole /\ RemovalDeletes

\* the records created by the last completed run, when nothing has changed
\* since and the next run has parsed the documents and read the store
ReadAfterCreate == pc = "plan" /\ hist.lastCreated # {}

\* the next run parses the flashcard with the identifier e.id, and the
\* identifier resolves to the record created from the flashcard's fields
RoundTrips(e) ==
    /\ \E c \in DOMAIN run.syncContexts : \E n \in DOMAIN run.syncContexts[c].notesData :
          LET noteData == run.syncContexts[c].notesData[n]
          IN /\ run.syncContexts[c].file = e.file
             /\ noteData.index = e.index
             /\ noteData.id = e.id
             /\ noteData.note.fields = e.fields
    /\ e.id \in DOMAIN run.globalReadState.existingNotesById
    /\ LET ankiNote == run.globalReadState.existingNotesById[e.id]
       IN /\ ankiNote.noteId = e.id
          /\ ankiNote.fields.Front.value = e.fields.Front
          /\ ankiNote.fields.Back.value = e.fields.Back

\* C3: a flashcard for which a run created a remote record is parsed by the
\* next run, at the same line index and with the same title and body, with
\* the identifier the store returned, and the identifier resolves to the
\* record created for it.
C3_CreatedIdRoundTrips == ReadAfterCreate => \A e \in hist.lastCreated : RoundTrips(e)

C3_Witness ==
    /\ ReadAfterCreate
    /\ \E e \in hist.lastCreated : RoundTrips(e) /\ e.id >= 10

----------------------------------------------------------------------------
(* Claims about the batch a run stages *)

\* the batch is computed and the store is still as the bulk read found it
BatchStaged == pc = "sent" \/ (pc = "write" /\ run.plan.mutationActions = <<>>)

\* the parsed flashcards of the run
Parsed ==
    UNION {{[file |-> run.syncContexts[c].file,
             deckName |-> run.syncContexts[c].deckName,
             context |-> c,
             noteData |-> run.syncContexts[c].notesData[n]] :
                n \in DOMAIN run.syncContexts[c].notesData} :
           c \in DOMAIN run.syncContexts}

Batch == run.plan.mutationActions
BatchActions(name) == {Batch[i] : i \in {k \in DOMAIN Batch : Batch[k].action = name}}

\* what the run staged for the flashcard p, by kind
StagedFor(p) ==
    {s.kind : s \in {t \in run.plan.staged :
                        t.file = p.file /\ t.index = p.noteData.index}}

\* the flashcard is the origin of exactly one entry of notesToCreate, the batch
\* has one addNotes action and the entry's note is at the same position in it
StagedAsOneCreate(p) ==
    LET entries == {i \in DOMAIN run.plan.notesToCreate :
                        /\ run.plan.notesToCreate[i].context = p.context
                        /\ run.plan.notesToCreate[i].noteData = p.noteData}
    IN /\ Cardinality(entries) = 1
       /\ Cardinality({k \in DOMAIN Batch : Batch[k].action = "addNotes"}) = 1
       /\ \A a \in BatchActions("addNotes") :
            /\ Len(a.notes) = Len(run.plan.notesToCreate)
            /\ \A i \in entries : a.notes[i] = p.noteData.note
       /\ StagedFor(p) = {"create"}

\* C4: a parsed flashcard without identifier is staged as exactly one create
\* of the addNotes action, and nothing else is staged for it.
C4_NewFlashcardIsCreated ==
    BatchStaged => \A p \in Parsed : p.noteData.id = NoId => StagedAsOneCreate(p)

C4_Witness ==
    BatchStaged /\ \E p \in Parsed : p.noteData.id = NoId /\ StagedAsOneCreate(p)

\* the notesInfo item of the store for an identifier is structurally invalid
ItemInvalid(id) ==
    LET item == NoteInfoFor(remote, id)
    IN \/ ~item.isObject
       \/ ~IsNumber(item.noteId)
       \/ ~item.fields.Front.isString
       \/ ~item.fields.Back.isString

\* every document the run modified has been written back
AllWritten == pc = "write" /\ PendingWrites = {}

\* the header written for the i-th create carries the i-th created identifier
HeaderCarriesNewId(i) ==
    LET pending == run.plan.notesToCreate[i]
        file == run.syncContexts[pending.context].file
        header == parsePreamble(vault[file].lines[pending.noteData.index])
    IN /\ header.matched
       /\ header.id # <<>>
       /\ DigitsToNumber(header.id) = run.createdNoteIds[i]
       /\ run.createdNoteIds[i] # pending.noteData.id
       /\ header.title = pending.noteData.note.fields.Front

Resolves(p) == p.noteData.id # NoId /\ ~ItemInvalid(p.noteData.id)

\* the record carries the managed tag in some letter case
Managed(id) ==
    \E t \in remote[id].tags : ToLowerCase(t) = ToLowerCase(ANKI_LINK_TAG)

UpdatesFor(id) == {a \in BatchActions("updateNoteFields") : a.id = id}
MovesFor(id) ==
    {a \in BatchActions("changeDeck") : \E k \in DOMAIN a.cards : a.cards[k] = id}

\* C6: for a flashcard whose identifier resolves to a valid record without the
\* managed tag the run stages an addTags of the identifier and nothing else:
\* no updateNoteFields, no changeDeck, no create, no delete, and the flashcard
\* is not counted as modified.
C6_UntaggedIsOnlyTagged ==
    BatchStaged =>
        /\ \A p \in Parsed :
              (Resolves(p) /\ ~Managed(p.noteData.id)) =>
                  /\ \E a \in BatchActions("addTags") : p.noteData.id \in a.ids
                  /\ UpdatesFor(p.noteData.id) = {}
                  /\ MovesFor(p.noteData.id) = {}
                  /\ p.noteData.id \notin UNION {a.ids : a \in BatchActions("deleteNotes")}
                  /\ StagedFor(p) = {"tag"}
        /\ run.plan.totalModified <=
              Cardinality({p \in Parsed : Resolves(p) /\ Managed(p.noteData.id)})

C6_Witness ==
    /\ BatchStaged
    /\ \E p \in Parsed :
          /\ Resolves(p) /\ ~Managed(p.noteData.id)
          /\ p.noteData.note.fields.Front # remote[p.noteData.id].front
          /\ StagedFor(p) = {"tag"}

FieldsDiffer(p) ==
    \/ p.noteData.note.fields.Front # remote[p.noteData.id].front
    \/ p.noteData.note.fields.Back # remote[p.noteData.id].back

UpdateStaged(p) ==
    \E a \in UpdatesFor(p.noteData.id) : a.fields = p.noteData.note.fields

\* C7: for a flashcard whose identifier resolves to a valid, managed-tagged
\* record an updateNoteFields with the local Front and Back is staged if and
\* only if the local Front or the local Back differs from the remote value.
C7_UpdateIffFieldsDiffer ==
    BatchStaged =>
        \A p \in Parsed :
            (Resolves(p) /\ Managed(p.noteData.id)) => (UpdateStaged(p) <=> FieldsDiffer(p))

C7_Witness ==
    /\ BatchStaged
    /\ \E p \in Parsed :
          /\ Resolves(p) /\ Managed(p.noteData.id)
          /\ UpdateStaged(p)
          /\ p.noteData.note.fields.Front = remote[p.noteData.id].front
          /\ p.noteData.note.fields.Back # remote[p.noteData.id].back

\* the record has a card in the deck
InDeck(id, deckName) == remote[id].cards # <<>> /\ remote[id].deck = deckName

MoveStaged(p) ==
    \E a \in BatchActions("changeDeck") :
        a.deck = p.deckName /\ a.cards = remote[p.noteData.id].cards

\* C8 as stated: for a flashcard whose identifier resolves to a valid,
\* managed-tagged record a changeDeck to the document's deck is staged if and
\* only if the record is not in the document's deck.
C8_MoveIffDeckDiffers ==
    BatchStaged =>
        \A p \in Parsed :
            (Resolves(p) /\ Managed(p.noteData.id)) =>
                (MoveStaged(p) <=> ~InDeck(p.noteData.id, p.deckName))

\* C8 amended: a changeDeck is staged if and only if the record has at least
\* one card and is not in the document's deck.
C8_MoveIffCardsInOtherDeck ==
    BatchStaged =>
        \A p \in Parsed :
            (Resolves(p) /\ Managed(p.noteData.id)) =>
                (MoveStaged(p) <=> (remote[p.noteData.id].cards # <<>>
                                    /\ ~InDeck(p.noteData.id, p.deckName)))

C8_Witness ==
    /\ BatchStaged
    /\ \E p \in Parsed :
          /\ Resolves(p) /\ Managed(p.noteData.id)
          /\ MoveStaged(p)
          /\ remote[p.noteData.id].deck # p.deckName
    /\ \E p \in Parsed :
          /\ Resolves(p) /\ Managed(p.noteData.id)
          /\ ~MoveStaged(p)

\* flashcards for which a changeDeck or an updateNoteFields was staged
ModifiedFlashcards ==
    {<<s.file, s.index>> : s \in {t \in run.plan.staged : t.kind \in {"move", "update"}}}

\* C9: the summary of a successful run has added = number of staged creates,
\* deleted = number of identifiers sent in deleteNotes, and modified = number
\* of flashcards with a changeDeck or an updateNoteFields staged, a flashcard
\* with both counted once.
C9_SummaryReflectsBatch ==
    pc = "done" =>
        /\ run.summary.added = Len(run.plan.notesToCreate)
        /\ run.summary.added =
              Cardinality(UNION {DOMAIN a.notes : a \in BatchActions("addNotes")})
        /\ run.summary.deleted = Cardinality(DeleteSet)
        /\ run.summary.modified = Cardinality(ModifiedFlashcards)

C9_Witness ==
    /\ pc = "done"
    /\ run.summary.modified >= 1
    /\ \E s \in run.plan.staged, t \in run.plan.staged :
          s.kind = "move" /\ t.kind = "update" /\ s.file = t.file /\ s.index = t.index

\* some action of the batch reports an error in its per-action result
ActionErrorReceived ==
    /\ pc = "recv"
    /\ ~Truthy(wire.error)
    /\ \E i \in DOMAIN wire.result : wire.result[i].error # Null

\* C10: when an action of the batched mutation request reports a non-null
\* error in its per-action result, the run aborts with the error and returns
\* no summary.
C10_ActionErrorAborts ==
    [][ActionErrorReceived => (pc' = "failed" /\ run'.summary = NoSummary)]_vars

----------------------------------------------------------------------------
(* Claims about the results of the batch and the write-back *)

\* the addNotes action was answered without error, but not with one number
\* per create submitted
MalformedAddNotes ==
    /\ pc = "recv"
    /\ ~Truthy(wire.error) /\ wire.isArray
    /\ Len(wire.result) = Len(run.plan.mutationActions)
    /\ run.plan.notesToCreate # <<>>
    /\ wire.result[1].error = Null
    /\ \/ ~wire.result[1].isArray
       \/ Len(wire.result[1].items) # Len(run.plan.notesToCreate)
       \/ \E k \in DOMAIN wire.result[1].items : wire.result[1].items[k] \notin NoteIds

\* C11: when the addNotes result has not exactly one entry per create
\* submitted, or an entry that is no number, the run aborts with an error and
\* writes no document.
C11_MalformedAddNotesAborts ==
    [][MalformedAddNotes =>
          /\ pc' = "failed"
          /\ run'.error # ""
          /\ run'.summary = NoSummary
          /\ run'.written = <<>>
          /\ vault' = vault]_vars

\* the run aborted on a null entry although the store created the other note
C11_Witness ==
    /\ pc = "failed"
    /\ run.error = "AnkiConnect failed to create note"
    /\ \E id \in NoteIds : remote[id] # Absent
    /\ \A f \in Files : \A b \in Blocks(f) : b.id = NoId

\* documents for which the run created a record
FilesWithCreates ==
    {run.syncContexts[run.plan.notesToCreate[i].context].file :
        i \in DOMAIN run.plan.notesToCreate}

TimesWritten(f) == Cardinality({k \in DOMAIN run.written : run.written[k] = f})

\* C12: in a successful run a document with a created record is written
\* exactly once and a document without one is not written, whatever else was
\* staged for its flashcards.
C12_WrittenOnceIffCreated ==
    pc = "done" =>
        \A f \in Files : TimesWritten(f) = IF f \in FilesWithCreates THEN 1 ELSE 0

\* one document was written; another, with an update staged, was not
C12_Witness ==
    /\ pc = "done"
    /\ \E f \in FilesWithCreates : TimesWritten(f) = 1
    /\ \E s \in run.plan.staged :
          s.kind \in {"update", "move"} /\ s.file \notin FilesWithCreates
                                        /\ TimesWritten(s.file) = 0

\* the created identifier of the record whose header is line i of file f, or
\* NoId when the run created no record for that line
CreatedAt(f, i) ==
    LET hits == {k \in DOMAIN run.plan.notesToCreate :
                    /\ run.syncContexts[run.plan.notesToCreate[k].context].file = f
                    /\ run.plan.notesToCreate[k].noteData.index = i}
    IN IF hits = {} THEN NoId ELSE run.createdNoteIds[CHOOSE k \in hits : TRUE]

\* `> [!flashcard] %%<id>%% <title>`, the title as the header grammar reads it
\* from the line
ExpectedHeader(id, line) ==
    <<">", " ", FC, " ", "%", "%">> \o NumberToDigits(id) \o <<"%", "%", " ">>
        \o parsePreamble(line).title

----------------------------------------------------------------------------
(* Claims about the handler *)

SecondInFlight == second.pc \in {"load", "plan", "write"}

\* C14: a sync run is non-reentrant: while one run is in flight no second
\* run is in its read, mutate or write-back phase.
C14_RunsNeverOverlap == ~(InFlight /\ SecondInFlight)

\* the `anki deck` value is absent, no string, or blank
NoDeckValue(meta) ==
    ~meta.isString \/ \A k \in DOMAIN meta.value : IsWs(meta.value[k])

\* C15: a document whose `anki deck` value is absent, no string or blank is
\* excluded from the run: it is not read (it has no sync context), no create,
\* update, move or tag is staged for it, no deck is created for it and it is
\* not written.
C15_NoDeckNoSync ==
    InFlight =>
        /\ \A f \in Files :
              NoDeckValue(vault[f].meta) =>
                  /\ \A c \in DOMAIN run.syncContexts : run.syncContexts[c].file # f
                  /\ \A s \in run.plan.staged : s.file # f
                  /\ \A k \in DOMAIN run.written : run.written[k] # f
        /\ run.decksInUse =
              {Trim(vault[f].meta.value) : f \in {g \in Files : ~NoDeckValue(vault[g].meta)}}

\* a run has written the other document while a document with a blank deck
\* value holds a flashcard
C15_Witness ==
    /\ pc = "write"
    /\ run.written # <<>>
    /\ \E f \in Files :
          /\ vault[f].meta.isString /\ vault[f].meta.value # <<>>
          /\ NoDeckValue(vault[f].meta)
          /\ Blocks(f) # {}

\* the decks the documents of the vault resolve to
DecksResolved ==
    {Trim(vault[f].meta.value) : f \in {g \in Files : ~NoDeckValue(vault[g].meta)}}

\* C16: a successful deck setup sends deckNames exactly when a document
\* resolves to a deck, sends createDeck for exactly the decks in use that the
\* store does not have, and leaves every deck in use existing in the store.
C16_MissingDecksAreCreated ==
    [][(pc = "setup" /\ pc' = "load") =>
          /\ run'.setup.deckNamesSent <=> DecksResolved # {}
          /\ run'.setup.createDeck = DecksResolved \ remoteDecks
          /\ remoteDecks' = remoteDecks \cup DecksResolved]_vars

\* a setup that created one deck and found another present
C16_Witness ==
    /\ pc = "load"
    /\ run.setup.createDeck # {}
    /\ run.decksInUse \ run.setup.createDeck # {}
    /\ run.decksInUse \subseteq remoteDecks

\* the notices of the invocation that report its outcome
OutcomeNotices ==
    [k \in {j \in DOMAIN run.notices : run.notices[j].kind # "start"} |-> run.notices[k]]

\* C17: an invocation of the handler ends with exactly one outcome notice:
\* the summary with the counts when the run resolved, the failure with the
\* error message when it rejected; none is shown before the run ends.
C17_OneOutcomeNotice ==
    /\ InFlight => DOMAIN OutcomeNotices = {}
    /\ pc = "done" =>
          \E k \in DOMAIN run.notices :
              /\ DOMAIN OutcomeNotices = {k}
              /\ run.notices[k].kind = "summary"
              /\ run.notices[k].summary = run.summary
    /\ pc = "failed" =>
          \E k \in DOMAIN run.notices :
              /\ DOMAIN OutcomeNotices = {k}
              /\ run.notices[k].kind = "failure"
              /\ run.notices[k].message = run.error
              /\ run.error # ""

\* a run rejected by a refused addNotes reported that error and nothing else
C17_Witness ==
    /\ pc = "failed"
    /\ Len(run.notices) = 2
    /\ run.notices[2].kind = "failure"
    /\ run.notices[2].message = "AnkiConnect multi action failed"

----------------------------------------------------------------------------
(* The parser on arbitrary documents: a run up to the loading of the contexts *)

\* a line of a quote block with the given content
Quoted(content) == <<">", " ">> \o content

Hid == <<">", " ", FC, " ", "%", "%", "9", "%", "%", " ", "b">>
HNoTitle == <<">", " ", FC>>

\* what a body line can be: text, an empty line, the three fences, a code
\* fence with an info string, an indented code fence
BodyContents ==
    {<<"x">>, <<>>, <<BT, BT, BT>>, <<BT, BT, BT, "j">>, <<" ", BT, BT, BT>>,
     <<"~", "~", "~">>, <<"$", "$">>}

\* a quoted line with no space after the quote marker
QuotedTight == <<">", "x">>

ParseLines ==
    {Ha, Hid, HNoTitle, <<"t">>, QuotedTight}
        \cup {Quoted(content) : content \in BodyContents}

SeqsUpTo(S, n) == UNION {[1..k -> S] : k \in 0..n}

ParseVaults ==
    {[f \in Files |-> IF f = 1 THEN Doc(JsString(DeckD), lines)
                      ELSE Doc(JsUndefined, <<Hb>>)] :
        lines \in SeqsUpTo(ParseLines, MaxLines)}

\* a text line of backslashes, dollar signs, backticks and letters
InlineTexts == UNION {[1..k -> {BS, "$", BT, "x"}] : k \in 1..MaxText}

\* the lines of a body before such a line: none, or an empty math block
InlineLead == {<<>>, <<Quoted(<<"$", "$">>), Quoted(<<"$", "$">>)>>}

\* one flashcard whose body ends with one such line
InlineVaults ==
    {[f \in Files |-> IF f = 1
                      THEN Doc(JsString(DeckD), <<Ha>> \o lead \o <<Quoted(text)>>)
                      ELSE Doc(JsUndefined, <<Hb>>)] :
        lead \in InlineLead, text \in InlineTexts}

InitParse ==
    /\ vault \in ParseVaults \cup InlineVaults
    /\ remote = [id \in NoteIds |-> Absent]
    /\ remoteDecks = {}
    /\ nextId = FirstId
    /\ pc = "idle"
    /\ run = NoRun
    /\ wire = NoWire
    /\ hist = NoHist
    /\ second = NoSecond
    /\ remoteModels = {}
    /\ http = NoHttp

NextParse ==
    \/ StartSync
    \/ EnsureSetup
    \/ LoadSyncContexts

SpecParse == InitParse /\ [][NextParse]_vars

\* the documents have been parsed and nothing has been done with them yet
Loaded == pc = "read"

\* the records parseDocument returned for the file
RecordsOf(f) ==
    IF \E c \in DOMAIN run.syncContexts : run.syncContexts[c].file = f
    THEN run.syncContexts[CHOOSE c \in DOMAIN run.syncContexts :
                              run.syncContexts[c].file = f].notesData
    ELSE <<>>

\* the body lines the parser took for the record
BodyOf(f, record) == parseBody(Rest(vault[f].lines, record.index + 1))

\* the bodies handed to the formatter
LoadedBodies ==
    UNION {{BodyOf(f, RecordsOf(f)[k]) : k \in DOMAIN RecordsOf(f)} : f \in Files}

Segments(body) == parseBodyTokens(lexBody(body))

IsFenceLine(line) == lexLine(line).type = "fence"

\* the later lines that can close the fence of line i
ClosersAfter(body, i) ==
    {c \in (i + 1)..Len(body) :
        /\ IsFenceLine(body[c])
        /\ lexLine(body[c]).marker = lexLine(body[i]).marker
        /\ lexLine(body[c]).info = <<>>}

Unclosed(body, i) == IsFenceLine(body[i]) /\ ClosersAfter(body, i) = {}

MinOf(S) == CHOOSE x \in S : \A y \in S : x <= y

\* line i is an inner line or the closing fence of a block opened before it
RECURSIVE Enclosed(_, _)
Enclosed(body, i) ==
    \E j \in 1..(i - 1) :
        /\ IsFenceLine(body[j])
        /\ ClosersAfter(body, j) # {}
        /\ MinOf(ClosersAfter(body, j)) >= i
        /\ ~Enclosed(body, j)

\* the raw line is a line of a Text segment
KeptAsText(body, i) ==
    \E s \in DOMAIN Segments(body) :
        /\ Segments(body)[s].type = "text"
        /\ \E k \in DOMAIN Segments(body)[s].lines :
               Segments(body)[s].lines[k] = body[i]

\* the segments are those of the body with line i read as ordinary text
ReadAsText(body, i) ==
    Segments(body) =
        parseBodyTokens([lexBody(body) EXCEPT ![i] = TextToken(body[i])])

\* C18 as stated: a fence line of a body with no later closing fence of its
\* kind with an empty info string is a line of a Text segment, unchanged, and
\* no Code or Math segment is made from it.
C18_UnclosedFenceIsText ==
    Loaded =>
        \A body \in LoadedBodies : \A i \in DOMAIN body :
            Unclosed(body, i) => KeptAsText(body, i) /\ ReadAsText(body, i)

\* C18: a fence line that is neither an inner line nor the closing fence of
\* a block opened before it, and that has no later closing fence of its kind
\* with an empty info string, is a line of a Text segment, unchanged, and the
\* segments are those the body has when the line is ordinary text.
C18_OpenedUnclosedFenceIsText ==
    Loaded =>
        \A body \in LoadedBodies : \A i \in DOMAIN body :
            Unclosed(body, i) /\ ~Enclosed(body, i)
                => KeptAsText(body, i) /\ ReadAsText(body, i)

\* a math fence that is never closed, followed by a closed code block
C18_Witness ==
    /\ Loaded
    /\ \E body \in LoadedBodies :
          /\ Len(body) = 3
          /\ lexLine(body[1]).marker = "$$"
          /\ Unclosed(body, 1)
          /\ \E s \in DOMAIN Segments(body) : Segments(body)[s].type = "code"

\* the segments from s on account for the body lines from p on, one after the
\* other: a Text segment for as many lines as it holds, a Code or Math
\* segment for an opening fence, its inner lines and a closing fence
RECURSIVE Accounts(_, _, _, _)
Accounts(segments, s, body, p) ==
    IF s > Len(segments) THEN p = Len(body) + 1
    ELSE LET segment == segments[s]
             n == Len(segment.lines)
         IN IF segment.type = "text"
            THEN /\ n > 0
                 /\ p + n - 1 <= Len(body)
                 /\ SubSeq(body, p, p + n - 1) = segment.lines
                 /\ Accounts(segments, s + 1, body, p + n)
            ELSE /\ p <= Len(body)
                 /\ IsFenceLine(body[p])
                 /\ (segment.type = "math") = (lexLine(body[p]).marker = "$$")
                 /\ segment.language = lexLine(body[p]).info
                 /\ \E q \in ClosersAfter(body, p) :
                        /\ JoinLines(SubSeq(body, p + 1, q - 1)) = segment.content
                        /\ Accounts(segments, s + 1, body, q + 1)

\* the bodies of fewer lines than a document has
BodySet == SeqsUpTo(BodyContents, MaxLines - 1)

\* C19 as stated, its last part: the body lines can be reconstructed from
\* the segments, that is, no other body has the same segments.
C19_BodyReconstructs ==
    Loaded =>
        \A body \in LoadedBodies : \A other \in BodySet :
            Segments(other) = Segments(body) => other = body

\* C19: the segments account for every body line exactly once and in order:
\* a line is a line of one Text segment, kept as it is, an inner line of one
\* Code/Math segment, kept in the segment's content, or the opening or
\* closing fence of one Code/Math segment, of which the kind and the trimmed
\* info string are kept.
C19_EveryLineAccountedInOrder ==
    Loaded => \A body \in LoadedBodies : Accounts(Segments(body), 1, body, 1)

\* a text line, then a closed code block: a segment boundary after line 1
C19_Witness ==
    /\ Loaded
    /\ \E body \in LoadedBodies :
          /\ Len(body) = 3
          /\ Len(Segments(body)) = 2
          /\ Segments(body)[1].type = "text"
          /\ Segments(body)[2].type = "code"

\* the line matches the header grammar and its title is not empty
TitledHeader(line) == parsePreamble(line).matched /\ parsePreamble(line).title # <<>>

\* the last line of the record's range: its header plus its body
LastLineOf(f, record) == record.index + Len(BodyOf(f, record))

\* C20: the records of a document are in strictly increasing order of index;
\* each index is the position of a line that matches the header grammar with
\* a title that is not empty and is the record's Front; every such line has
\* exactly one record; the ranges (header and body) of two records are apart.
C20_RecordsFollowHeaders ==
    Loaded =>
        \A f \in Files :
            LET lines == vault[f].lines
                records == IF run.fileDecks[f] = NoDeck THEN <<>> ELSE RecordsOf(f)
            IN /\ \A k \in DOMAIN records :
                      /\ records[k].index \in DOMAIN lines
                      /\ TitledHeader(lines[records[k].index])
                      /\ records[k].note.fields.Front
                            = parsePreamble(lines[records[k].index]).title
                      /\ LastLineOf(f, records[k]) <= Len(lines)
                      /\ k < Len(records) =>
                            /\ records[k].index < records[k + 1].index
                            /\ LastLineOf(f, records[k]) < records[k + 1].index
               /\ run.fileDecks[f] # NoDeck =>
                      \A i \in DOMAIN lines :
                          TitledHeader(lines[i]) =>
                              Cardinality({k \in DOMAIN records : records[k].index = i}) = 1

\* a header with a body line, a header without title, a header with an
\* identifier right after it: two records, the first with a body
C20_Witness ==
    /\ Loaded
    /\ Len(vault[1].lines) = 4
    /\ Len(RecordsOf(1)) = 2
    /\ Len(BodyOf(1, RecordsOf(1)[1])) = 1
    /\ parsePreamble(vault[1].lines[3]).matched
    /\ ~TitledHeader(vault[1].lines[3])
    /\ RecordsOf(1)[2].id # NoId

\* the line belongs to a body: it is quoted and is not a header
BodyLine(line) == StartsWith(line, <<">">>) /\ ~parsePreamble(line).matched

\* the number of lines after line i up to the first that is not a body line
RECURSIVE PrefixLength(_, _)
PrefixLength(lines, i) ==
    IF i + 1 <= Len(lines) /\ BodyLine(lines[i + 1])
    THEN 1 + PrefixLength(lines, i + 1) ELSE 0

\* line without its quote marker and without at most one whitespace after it
Unquoted(line, content) ==
    \/ /\ Len(line) >= 2
       /\ IsWs(line[2])
       /\ line = <<">", line[2]>> \o content
    \/ /\ Len(line) < 2 \/ ~IsWs(line[2])
       /\ line = <<">">> \o content

\* C21: the body of a record is the longest run of lines after its header
\* that start with the quote marker and do not match the header grammar,
\* each without the marker and at most one whitespace after it; it is empty
\* when the line after the header is not quoted.
C21_BodyIsLongestQuotedPrefix ==
    Loaded =>
        \A f \in Files : \A k \in DOMAIN RecordsOf(f) :
            LET lines == vault[f].lines
                i == RecordsOf(f)[k].index
                body == BodyOf(f, RecordsOf(f)[k])
            IN /\ Len(body) = PrefixLength(lines, i)
               /\ \A j \in DOMAIN body : Unquoted(lines[i + j], body[j])

\* a header followed by a plain line, and a header whose body of two lines,
\* one with two spaces after the marker, runs to the end of the document
C21_Witness ==
    /\ Loaded
    /\ Len(RecordsOf(1)) = 2
    /\ vault[1].lines[2] = <<"t">>
    /\ BodyOf(1, RecordsOf(1)[1]) = <<>>
    /\ Len(BodyOf(1, RecordsOf(1)[2])) = 1
    /\ BodyOf(1, RecordsOf(1)[2])[1] = <<" ", BT, BT, BT>>

\* the markdown texts handed to renderMarkdownText
RenderedTexts ==
    UNION {{JoinLines(Segments(body)[s].lines) :
                s \in {t \in DOMAIN Segments(body) : Segments(body)[t].type = "text"}} :
           body \in LoadedBodies}

\* the length of the run of backslashes right before position i
BackslashRun(text, i) ==
    CHOOSE n \in 0..(i - 1) :
        /\ \A j \in (i - n)..(i - 1) : text[j] = BS
        /\ i - n - 1 >= 1 => text[i - n - 1] # BS

\* the dollar signs of the text that are not escaped
FreeDollars(text) ==
    {i \in DOMAIN text : text[i] = "$" /\ BackslashRun(text, i) % 2 = 0}

\* C22: a dollar sign or backtick is escaped exactly when an odd number of
\* consecutive backslashes precedes it; every inline math span takes two
\* dollar signs that are not escaped, so a text whose dollar signs are all
\* escaped is left as it is; \$x\$ gives no placeholder and $x$ gives one
\* placeholder, replaced by the span \(x\).
C22_EscapingByParity ==
    Loaded =>
        \A text \in RenderedTexts :
            LET extracted == extractInlineMathPlaceholders(text)
            IN /\ \A i \in DOMAIN text :
                      text[i] \in {"$", BT} =>
                          (isEscaped(text, i) <=> BackslashRun(text, i) % 2 = 1)
               /\ 2 * Len(extracted.replacements) <= Cardinality(FreeDollars(text))
               /\ FreeDollars(text) = {} =>
                      extracted.markdownWithPlaceholders = text
               /\ text = <<BS, "$", "x", BS, "$">> =>
                      /\ extracted.replacements = <<>>
                      /\ renderMarkdownText(<<text>>) = <<"<md>">> \o text \o <<"</md>">>
               /\ text = <<"$", "x", "$">> =>
                      /\ extracted.markdownWithPlaceholders = Placeholder(0)
                      /\ extracted.replacements =
                            <<[placeholder |-> Placeholder(0),
                               replacement |-> <<"\\(", "x", "\\)">>]>>
                      /\ renderMarkdownText(<<text>>) =
                            <<"<md>", "\\(", "x", "\\)", "</md>">>

\* a dollar sign after two backslashes opens a span that the next free dollar
\* sign closes, and the flashcard's Back carries the span
C22_Witness ==
    /\ Loaded
    /\ <<BS, BS, "$", "x", "$">> \in RenderedTexts
    /\ Len(extractInlineMathPlaceholders(<<BS, BS, "$", "x", "$">>).replacements) = 1
    /\ RecordsOf(1)[1].note.fields.Back =
          <<"<md>", BS, BS, "\\(", "x", "\\)", "</md>">>

\* the flashcards of the documents that name a deck: file and position
LocalFlashcards ==
    UNION {{[file |-> f, id |-> parseDocument(vault[f].lines, NoDeck)[n].id,
             index |-> parseDocument(vault[f].lines, NoDeck)[n].index] :
                n \in DOMAIN parseDocument(vault[f].lines, NoDeck)} :
           f \in {g \in Files : getDeckNameForFile(vault[g].meta) # NoDeck}}

\* the run after a rejected run that left records behind has completed, and
\* nothing else was changed in between
RerunCompleted == pc = "done" /\ hist.aborted.stage = "rerun"

\* every flashcard has a managed record of its own and there is no other
OneManagedRecordEach ==
    /\ \A card \in LocalFlashcards :
          card.id # NoId /\ card.id \in FindTagged(remote)
    /\ \A c1, c2 \in LocalFlashcards : c1.id = c2.id => c1 = c2
    /\ FindTagged(remote) = {card.id : card \in LocalFlashcards}

\* C23: when a run has created records and was rejected before their
\* identifiers were written, the next run that completes with no change in
\* between leaves one managed record per flashcard: the records the rejected
\* run left behind are deleted and the flashcards have records of their own.
C23_RerunLeavesOneRecordEach ==
    RerunCompleted =>
        /\ OneManagedRecordEach
        /\ \A id \in hist.aborted.strays : remote[id].kind = "absent"

----------------------------------------------------------------------------
(* Another writer changes a document while a run is in flight *)

\* the contexts are loaded and the run has not ended
AfterRead == pc \in {"read", "plan", "sent", "recv", "write"}

\* a line is appended to a document (by the user or by another plugin)
ConcurrentEdit ==
    /\ AfterRead
    /\ hist.edits < MaxEdits
    /\ \E f \in Files, line \in {<<"t">>, Bx} :
          vault' = [vault EXCEPT ![f].lines = Append(@, line)]
    /\ hist' = [hist EXCEPT !.edits = @ + 1]
    /\ UNCHANGED <<http, remoteModels, second, remote, remoteDecks, nextId, pc, run, wire>>

NextConcurrent ==
    \/ StartSync
    \/ EnsureSetup
    \/ LoadSyncContexts
    \/ LoadGlobalReadState
    \/ SendBatch
    \/ RemoteMulti
    \/ ReceiveResults
    \/ WriteDocument
    \/ Finish
    \/ ConcurrentEdit

SpecConcurrent == Init /\ [][NextConcurrent]_vars

\* the step writes a document back
WritesBack == pc = "write" /\ run'.written # run.written

\* C24: a write-back keeps what is in the document at that moment: every
\* line is still there afterwards, unchanged unless it is a header line.
C24_WriteBackKeepsConcurrentEdits ==
    [][WritesBack =>
          \A f \in Files : \A i \in DOMAIN vault[f].lines :
              /\ i \in DOMAIN vault'[f].lines
              /\ \/ vault'[f].lines[i] = vault[f].lines[i]
                 \/ parsePreamble(vault[f].lines[i]).matched]_vars

----------------------------------------------------------------------------
\* the header lines of all documents that carry the identifier
HeadersWith(id) ==
    {<<f, i>> \in UNION {{<<g, j>> : j \in DOMAIN vault[g].lines} : g \in Files} :
        /\ parsePreamble(vault[f].lines[i]).matched
        /\ parsePreamble(vault[f].lines[i]).id # <<>>
        /\ DigitsToNumber(parsePreamble(vault[f].lines[i]).id) = id}

\* the i-th create is staged before the j-th: an earlier document of the
\* list, or an earlier line of the same document
StagedBefore(i, j) ==
    LET a == run.plan.notesToCreate[i]
        b == run.plan.notesToCreate[j]
    IN \/ a.context < b.context
       \/ a.context = b.context /\ a.noteData.index < b.noteData.index

\* position of the file in the list of markdown files
OrderOf(f) == CHOOSE k \in DOMAIN FileOrder : FileOrder[k] = f

\* C25: the i-th identifier of the addNotes result is the record made from
\* the i-th staged create and is written into that flashcard's header line
\* and into no other line; the creates are staged in the order of the
\* documents and, within a document, of the lines.
C25_CreatedIdsMatchByPosition ==
    AllWritten =>
        /\ Len(run.createdNoteIds) = Len(run.plan.notesToCreate)
        /\ \A c, d \in DOMAIN run.syncContexts :
              c < d => OrderOf(run.syncContexts[c].file) < OrderOf(run.syncContexts[d].file)
        /\ \A i, j \in DOMAIN run.plan.notesToCreate : i < j => StagedBefore(i, j)
        /\ \A i \in DOMAIN run.createdNoteIds :
              LET pending == run.plan.notesToCreate[i]
                  file == run.syncContexts[pending.context].file
                  id == run.createdNoteIds[i]
              IN /\ remote[id].kind # "absent"
                 /\ remote[id].front = pending.noteData.note.fields.Front
                 /\ HeadersWith(id) = {<<file, pending.noteData.index>>}
                 /\ parsePreamble(vault[file].lines[pending.noteData.index]).title
                        = pending.noteData.note.fields.Front

\* two flashcards of different titles were created in one batch
C25_Witness ==
    /\ AllWritten
    /\ Len(run.createdNoteIds) = 2
    /\ run.plan.notesToCreate[1].noteData.note.fields.Front
          # run.plan.notesToCreate[2].noteData.note.fields.Front

----------------------------------------------------------------------------
\* the positions of the run's requests with the given action
RequestsOf(name) == {k \in DOMAIN run.requests : run.requests[k].request = name}

\* a multi request of queries, and one of mutations
IsBulkRead(k) ==
    run.requests[k].request = "multi"
        /\ run.requests[k].actions[1].action \in {"findNotes", "notesInfo"}

BulkReads == {k \in RequestsOf("multi") : IsBulkRead(k)}
MutationRequests == {k \in RequestsOf("multi") : ~IsBulkRead(k)}

\* the actions of the given name in the request at position k
ActionsIn(k, name) ==
    {a \in DOMAIN run.requests[k].actions : run.requests[k].actions[a].action = name}

\* the bulk read holds the managed-tag query, at most one notesInfo, which
\* names all referenced identifiers, and one deck query per deck in use
OneBulkRead(k) ==
    LET actions == run.requests[k].actions
        tagOnly == {a \in ActionsIn(k, "findNotes") : actions[a].deck = NoDeck}
        byDeck == ActionsIn(k, "findNotes") \ tagOnly
    IN /\ tagOnly = {1}
       /\ Cardinality(ActionsIn(k, "notesInfo")) <= 1
       /\ \A a \in ActionsIn(k, "notesInfo") :
              actions[a].ids = ReferencedIds(run.syncContexts) /\ actions[a].ids # {}
       /\ ReferencedIds(run.syncContexts) # {} => ActionsIn(k, "notesInfo") # {}
       /\ {actions[a].deck : a \in byDeck} = run.decksInUse
       /\ Cardinality(byDeck) = Cardinality(run.decksInUse)
       /\ Len(actions) = 1 + Cardinality(ActionsIn(k, "notesInfo")) + Cardinality(byDeck)

\* the bulk read of the run has been sent
ReadSent == pc \in {"plan", "sent", "recv", "write", "done"}

\* C26: whatever the number of flashcards, a run sends one bulk read, made
\* of the managed-tag query, at most one notesInfo over all referenced
\* identifiers and one query per deck in use, and at most one mutation
\* request; besides these it sends the setup requests only: deckNames, one
\* createDeck per missing deck, and three or four requests for the model.
C26_RequestsAreBounded ==
    /\ Cardinality(BulkReads) <= 1
    /\ Cardinality(MutationRequests) <= 1
    /\ ReadSent =>
          /\ Cardinality(BulkReads) = 1
          /\ \A k \in BulkReads : OneBulkRead(k)
    /\ pc = "done" =>
          /\ Cardinality(MutationRequests) = IF run.plan.mutationActions # <<>> THEN 1 ELSE 0
          /\ Cardinality(RequestsOf("deckNames")) = IF run.decksInUse # {} THEN 1 ELSE 0
          /\ Cardinality(RequestsOf("createDeck")) = Cardinality(run.setup.createDeck)
          /\ Cardinality(RequestsOf("modelNames")) = 1
          /\ Cardinality(RequestsOf("createModel")) <= 1
          /\ Cardinality(RequestsOf("updateModelTemplates")) = 1
          /\ Cardinality(RequestsOf("updateModelStyling")) = 1
          /\ Len(run.requests) =
                Cardinality(RequestsOf("deckNames")) + Cardinality(RequestsOf("createDeck"))
                + 3 + Cardinality(RequestsOf("createModel")) + 1
                + Cardinality(MutationRequests)

\* a completed run over two flashcards with identifiers in two decks: one
\* notesInfo for both, two deck queries, one mutation request
C26_Witness ==
    /\ pc = "done"
    /\ Cardinality(ReferencedIds(run.syncContexts)) = 2
    /\ Cardinality(run.decksInUse) = 2
    /\ \A k \in BulkReads : Len(run.requests[k].actions) = 4
    /\ Cardinality(MutationRequests) = 1

----------------------------------------------------------------------------
\* the batch of the run has been computed and, unless empty, sent
Planned == pc \in {"sent", "recv", "write", "done"}

\* positions of the batch's actions of the given name
InBatch(name) == {k \in DOMAIN Batch : Batch[k].action = name}

\* C27: what a run stages goes out in one multi request: one addNotes with
\* all creates if there is a create, the changeDeck and updateNoteFields
\* actions, one addTags with all identifiers to tag if there is one, one
\* deleteNotes with all orphans if there is one; an action without work is
\* left out, and when nothing is staged no mutation request is sent.
C27_OneBatchOnlyActionsWithWork ==
    Planned =>
        /\ Cardinality(MutationRequests) = IF Batch # <<>> THEN 1 ELSE 0
        /\ \A k \in MutationRequests : run.requests[k].actions = Batch
        /\ Cardinality(InBatch("addNotes")) = IF run.plan.notesToCreate # <<>> THEN 1 ELSE 0
        /\ \A k \in InBatch("addNotes") :
              Batch[k].notes = [i \in DOMAIN run.plan.notesToCreate |->
                                   run.plan.notesToCreate[i].noteData.note]
        /\ Cardinality(InBatch("addTags")) = IF run.plan.noteIdsToTag # {} THEN 1 ELSE 0
        /\ \A k \in InBatch("addTags") : Batch[k].ids = run.plan.noteIdsToTag
        /\ Cardinality(InBatch("deleteNotes")) = IF run.plan.orphanedNoteIds # {} THEN 1 ELSE 0
        /\ \A k \in InBatch("deleteNotes") : Batch[k].ids = run.plan.orphanedNoteIds
        /\ Cardinality(InBatch("changeDeck")) =
              Cardinality({t \in run.plan.staged : t.kind = "move"})
        /\ Cardinality(InBatch("updateNoteFields")) =
              Cardinality({t \in run.plan.staged : t.kind = "update"})
        /\ Len(Batch) = Cardinality(InBatch("addNotes")) + Cardinality(InBatch("addTags"))
                        + Cardinality(InBatch("deleteNotes"))
                        + Cardinality(InBatch("changeDeck"))
                        + Cardinality(InBatch("updateNoteFields"))

\* a batch with a create and a delete and, for lack of identifiers to tag,
\* no addTags
C27_Witness ==
    /\ pc = "sent"
    /\ Len(Batch) = 2
    /\ InBatch("addNotes") = {1}
    /\ InBatch("deleteNotes") = {2}
    /\ run.plan.noteIdsToTag = {}


----------------------------------------------------------------------------
(* Responses with errors: the setup requests and the bulk read, with the
   answers of AnkiConnect on the wire before the run examines them *)

\* the error strings of a failing response: AnkiConnect answers the message
\* of the exception it caught, which may be empty
ErrorValues == {"", "refused"}

\* the most setup requests one run sends: deckNames, modelNames, createModel,
\* updateModelTemplates, updateModelStyling and one createDeck per deck
MaxSetupRequests == 5 + Cardinality({DeckD, DeckE})

\* lines 337, 342, 348, 351, 354, 356: a setup response makes the run throw
\* when its error is truthy; line 349 reads modelNamesRes.result.includes,
\* and the result of a failed response is null
SetupThrows(response) ==
    \/ Truthy(response.error)
    \/ response.request = "modelNames" /\ response.error # Null

\* ensureDecksExist and ensureModelIsConfigured against a store that answers
\* the request at position failAt with the error err: the requests with
\* their answers, and those of them sent before the run throws.  A failed
\* deckNames carries no result, so that new Set(null) lists no deck
SetupExchange(decksInUse, existingDecks, modelNames, failAt, err) ==
    LET listed == IF failAt = 1 /\ decksInUse # {} THEN {} ELSE existingDecks
        setup == ensureDecksExist(decksInUse, listed)
        all == DeckRequests(setup) \o ensureModelIsConfigured(modelNames)
        answered == [k \in 1..Len(all) |->
                        [request |-> all[k].request,
                         error |-> IF k = failAt THEN err ELSE Null]]
        stops == {k \in 1..Len(all) : SetupThrows(answered[k])}
        last == IF stops = {} THEN Len(all)
                ELSE CHOOSE k \in stops : \A j \in stops : k <= j
        decks == SeqOf(setup.createDeck)
        first == IF setup.deckNamesSent THEN 1 ELSE 0
    IN [setup |-> setup,
        all |-> answered,
        sent |-> SubSeq(answered, 1, last),
        created |-> {decks[j] : j \in {i \in 1..Len(decks) :
                                          /\ first + i <= last
                                          /\ answered[first + i].error = Null}}]

\* the setup requests are sent and answered, one after the other
AnswerSetup ==
    /\ pc = "setup"
    /\ wire = NoWire
    /\ \E failAt \in 0..MaxSetupRequests, err \in ErrorValues :
          LET exchange == SetupExchange(run.decksInUse, remoteDecks, remoteModels,
                                        failAt, err)
          IN /\ failAt <= Len(exchange.all)
             /\ wire' = [error |-> Null, isArray |-> TRUE, result |-> exchange.sent]
             /\ run' = [run EXCEPT
                           !.setup = exchange.setup,
                           !.requests = @ \o [k \in 1..Len(exchange.sent) |->
                                                 Request(exchange.sent[k].request, <<>>)]]
             /\ remoteDecks' = remoteDecks \cup exchange.created
             /\ remoteModels' =
                   IF \E k \in 1..Len(exchange.sent) :
                         /\ exchange.sent[k].request = "createModel"
                         /\ exchange.sent[k].error = Null
                   THEN remoteModels \cup {ANKI_LINK_MODEL_NAME} ELSE remoteModels
    /\ UNCHANGED <<http, pc, second, vault, remote, nextId, hist>>

\* syncVaultNotes lines 75-76: setup throws, or the run goes on
ReceiveSetup ==
    /\ pc = "setup"
    /\ wire # NoWire
    /\ IF \E k \in 1..Len(wire.result) : SetupThrows(wire.result[k])
       THEN Abort("AnkiConnect: setup")
       ELSE /\ pc' = "load"
            /\ wire' = NoWire
            /\ UNCHANGED <<run, hist>>
    /\ UNCHANGED <<http, remoteModels, second, vault, remote, remoteDecks, nextId>>

\* the answer to a bulk read of n actions: fault 1 puts the error on the
\* multi response itself, fault k + 1 on the result of action k; a failed
\* answer carries the result null
ReadResponse(n, fault, err) ==
    IF fault = 1 THEN [error |-> err, isArray |-> FALSE, result |-> <<>>]
    ELSE [error |-> Null, isArray |-> TRUE,
          result |-> [k \in 1..n |->
                         IF fault = k + 1 THEN ActionResponse(err, FALSE, <<>>)
                         ELSE ActionResponse(Null, TRUE, <<>>)]]

\* loadGlobalReadState lines 210-247: the checks on the bulk read response
ReadOutcome(multiRes, n) ==
    IF Truthy(multiRes.error) THEN Thrown("AnkiConnect multi")
    ELSE IF ~multiRes.isArray \/ Len(multiRes.result) # n
    THEN Thrown("AnkiConnect multi returned an unexpected result size")
    ELSE IF \E k \in 1..n : ~unwrapMultiActionResult(multiRes.result[k]).ok
    THEN Thrown("AnkiConnect multi action failed")
    ELSE IF \E k \in 1..n : ~unwrapMultiActionResult(multiRes.result[k]).isArray
    THEN Thrown("AnkiConnect returned an unexpected result shape")
    ELSE Returned(TRUE, <<>>)

\* lines 197-209: the bulk read is sent and answered
AnswerRead ==
    /\ pc = "read"
    /\ wire = NoWire
    /\ LET actions == ReadActions(run.syncContexts, run.decksInUse)
       IN /\ \E fault \in 0..(Len(actions) + 1), err \in ErrorValues :
                wire' = ReadResponse(Len(actions), fault, err)
          /\ run' = [run EXCEPT !.requests = Append(@, Request("multi", actions))]
    /\ UNCHANGED <<http, pc, remoteModels, second, vault, remote, remoteDecks, nextId, hist>>

\* lines 210-253: the answer is examined, and the read state built from it
ReceiveRead ==
    /\ pc = "read"
    /\ wire # NoWire
    /\ LET outcome == ReadOutcome(wire, Len(ReadActions(run.syncContexts,
                                                         run.decksInUse)))
       IN IF ~outcome.ok THEN Abort(outcome.error)
          ELSE /\ run' = [run EXCEPT
                             !.globalReadState =
                                 loadGlobalReadState(run.syncContexts,
                                                     run.decksInUse, remote)]
               /\ pc' = "plan"
               /\ wire' = NoWire
               /\ UNCHANGED hist
    /\ UNCHANGED <<http, remoteModels, second, vault, remote, remoteDecks, nextId>>

NextFaults ==
    \/ StartSync
    \/ AnswerSetup
    \/ ReceiveSetup
    \/ LoadSyncContexts
    \/ AnswerRead
    \/ ReceiveRead
    \/ SendBatch
    \/ RemoteMulti
    \/ ReceiveResults
    \/ WriteDocument
    \/ Finish

SpecFaults == Init /\ [][NextFaults]_vars

\* a setup response, the bulk read response or one of its results, now on
\* the wire, carries an error that is not null
ErrorAnswered ==
    /\ pc \in {"setup", "read"}
    /\ wire # NoWire
    /\ \/ wire.error # Null
       \/ \E k \in 1..Len(wire.result) : wire.result[k].error # Null

\* C28: a non-null error in a setup response, in the bulk read response or
\* in one of its per-action results aborts the run at that step: the run
\* fails there, no mutation request is sent and no document is written
C28_AnyErrorAborts ==
    [][ErrorAnswered =>
           /\ pc' = "failed"
           /\ vault' = vault
           /\ remote' = remote]_vars


----------------------------------------------------------------------------
(* The transport: AnkiConnectClient over requestUrl, and a run whose
   requests the transport rejects *)

DEFAULT_ANKI_CONNECT_URL == "http://localhost:8765"
DEFAULT_ANKI_CONNECT_VERSION == 6

\* client.ts line 109: new AnkiConnectClient() with the defaults of lines 32-33
defaultAnkiConnectClient ==
    [url |-> DEFAULT_ANKI_CONNECT_URL, version |-> DEFAULT_ANKI_CONNECT_VERSION]

\* the errors requestUrl rejects with
TransportErrors == {"Network down", "Request failed, status 500"}

\* what requestUrl does with the requests of one call, attempt after
\* attempt: the first attempt resolves, or it is rejected and a second
\* attempt would resolve
Transports ==
    {<<Resolved, Resolved>>} \cup {<<RejectedWith(e), Resolved>> : e \in TransportErrors}

\* client.ts lines 36-42: the body is the JSON text of action, version, params
buildRequest(client, action, params) ==
    [url |-> client.url, method |-> "POST",
     body |-> [action |-> action, version |-> client.version, params |-> params]]

\* variant: a rejected request is sent once more
send_Retries(client, action, params, transport) ==
    IF transport[1].rejected
    THEN [sent |-> <<buildRequest(client, action, params),
                     buildRequest(client, action, params)>>,
          outcome |-> transport[2]]
    ELSE [sent |-> <<buildRequest(client, action, params)>>, outcome |-> transport[1]]

\* client.ts lines 44-47: one requestUrl, awaited; its rejection is the
\* rejection of the call
send(client, action, params, transport) ==
    [sent |-> <<buildRequest(client, action, params)>>, outcome |-> transport[1]]

\* a call of a client method: the action and the params it passes to send
ClientCall(action, params) == [action |-> action, params |-> params]

\* the client calls of ensureDecksExist and ensureModelIsConfigured, in order
SetupCalls(decksInUse, existingDecks, modelNames) ==
    LET setup == ensureDecksExist(decksInUse, existingDecks)
        decks == SeqOf(setup.createDeck)
    IN (IF setup.deckNamesSent THEN <<ClientCall("deckNames", <<>>)>> ELSE <<>>)
       \o [k \in 1..Len(decks) |-> ClientCall("createDeck", <<decks[k]>>)]
       \o <<ClientCall("modelNames", <<>>)>>
       \o (IF ANKI_LINK_MODEL_NAME \notin modelNames
           THEN <<ClientCall("createModel", <<ANKI_LINK_MODEL_NAME>>)>> ELSE <<>>)
       \o <<ClientCall("updateModelTemplates", <<ANKI_LINK_MODEL_NAME>>),
            ClientCall("updateModelStyling", <<ANKI_LINK_MODEL_NAME>>)>>

\* the HTTP requests of a sequence of sends
RECURSIVE SentBy(_)
SentBy(results) ==
    IF results = <<>> THEN <<>> ELSE Head(results).sent \o SentBy(Tail(results))

\* lines 334-357 over the transport: the setup calls are made one after the
\* other until one is rejected; the transport rejects call failAt, if any
CallSetup ==
    /\ pc = "setup"
    /\ http.stage # "setup"
    /\ \E failAt \in 0..MaxSetupRequests, faulty \in Transports \ {<<Resolved, Resolved>>} :
          LET calls == SetupCalls(run.decksInUse, remoteDecks, remoteModels)
              transport(k) == IF k = failAt THEN faulty ELSE <<Resolved, Resolved>>
              results == [k \in 1..Len(calls) |->
                             send(defaultAnkiConnectClient, calls[k].action,
                                  calls[k].params, transport(k))]
              stops == {k \in 1..Len(calls) : results[k].outcome.rejected}
              last == IF stops = {} THEN Len(calls)
                      ELSE CHOOSE k \in stops : \A j \in stops : k <= j
          IN /\ failAt <= Len(calls)
             /\ http' = [stage |-> "setup",
                         calls |-> SubSeq(calls, 1, last),
                         sent |-> SentBy(SubSeq(results, 1, last)),
                         transport |-> IF failAt = 0 THEN <<Resolved, Resolved>>
                                       ELSE faulty,
                         outcome |-> results[last].outcome]
             /\ run' = [run EXCEPT
                           !.requests = @ \o [k \in 1..last |->
                                                 Request(calls[k].action, <<>>)]]
    /\ UNCHANGED <<pc, wire, hist, remoteModels, second, vault, remote, remoteDecks, nextId>>

\* syncVaultNotes lines 75-76: the awaited setup rejects with the error of
\* the transport, or the run goes on; the store keeps what the calls that
\* resolved have created
ReturnSetup ==
    /\ pc = "setup"
    /\ http.stage = "setup"
    /\ LET resolved == IF http.outcome.rejected
                       THEN SubSeq(http.calls, 1, Len(http.calls) - 1) ELSE http.calls
           done(action) == {k \in 1..Len(resolved) : resolved[k].action = action}
       IN /\ remoteDecks' = remoteDecks \cup {resolved[k].params[1] : k \in done("createDeck")}
          /\ remoteModels' = remoteModels \cup {resolved[k].params[1] : k \in done("createModel")}
          /\ IF http.outcome.rejected
             THEN Abort(http.outcome.error)
             ELSE /\ pc' = "load"
                  /\ run' = [run EXCEPT
                                !.setup = ensureDecksExist(run.decksInUse, remoteDecks)]
                  /\ UNCHANGED <<wire, hist>>
    /\ http' = NoHttp
    /\ UNCHANGED <<second, vault, remote, nextId>>

\* line 211: sendMultiRequest(actions) is awaited; it resolves, or rejects
\* with the error of the transport
CallRead ==
    /\ pc = "read"
    /\ http.stage # "read"
    /\ \E transport \in Transports :
          http' = [NoHttp EXCEPT !.stage = "read", !.transport = transport,
                                 !.outcome = transport[1]]
    /\ run' = [run EXCEPT
                  !.requests =
                      Append(@, Request("multi",
                                        ReadActions(run.syncContexts, run.decksInUse)))]
    /\ UNCHANGED <<pc, wire, hist, remoteModels, second, vault, remote, remoteDecks, nextId>>

\* lines 210-253 after the await of line 211
ReturnRead ==
    /\ pc = "read"
    /\ http.stage = "read"
    /\ IF http.outcome.rejected
       THEN Abort(http.outcome.error)
       ELSE /\ run' = [run EXCEPT
                          !.globalReadState =
                              loadGlobalReadState(run.syncContexts, run.decksInUse,
                                                  remote)]
            /\ pc' = "plan"
            /\ UNCHANGED <<wire, hist>>
    /\ http' = NoHttp
    /\ UNCHANGED <<remoteModels, second, vault, remote, remoteDecks, nextId>>

\* line 257: sendMultiRequest(mutationActions) is awaited
CallBatch ==
    /\ pc = "sent"
    /\ wire = NoWire
    /\ http.stage # "batch"
    /\ \E transport \in Transports :
          http' = [NoHttp EXCEPT !.stage = "batch", !.transport = transport,
                                 !.outcome = transport[1]]
    /\ UNCHANGED <<pc, run, wire, hist, remoteModels, second, vault, remote, remoteDecks,
                   nextId>>

\* the request reached no store: sendMultiActions rejects, and with it the run
ReturnBatch ==
    /\ pc = "sent"
    /\ http.stage = "batch"
    /\ http.outcome.rejected
    /\ Abort(http.outcome.error)
    /\ http' = NoHttp
    /\ UNCHANGED <<remoteModels, second, vault, remote, remoteDecks, nextId>>

\* the request reached the store, which executes it and answers
DeliverBatch ==
    /\ http.stage = "batch"
    /\ ~http.outcome.rejected
    /\ RemoteMulti

NextTransport ==
    \/ StartSync
    \/ CallSetup
    \/ ReturnSetup
    \/ LoadSyncContexts
    \/ CallRead
    \/ ReturnRead
    \/ SendBatch
    \/ CallBatch
    \/ ReturnBatch
    \/ DeliverBatch
    \/ ReceiveResults
    \/ WriteDocument
    \/ Finish

SpecTransport == Init /\ [][NextTransport]_vars

\* every client call of the stage has sent one HTTP request, which carries
\* its action, the configured version and its params
OneRequestPerCall ==
    /\ Len(http.sent) = Len(http.calls)
    /\ \A k \in 1..Len(http.calls) :
          /\ http.sent[k].url = DEFAULT_ANKI_CONNECT_URL
          /\ http.sent[k].method = "POST"
          /\ http.sent[k].body = [action |-> http.calls[k].action,
                                  version |-> DEFAULT_ANKI_CONNECT_VERSION,
                                  params |-> http.calls[k].params]

\* the transport has rejected a request of the stage in progress
TransportRejected == http.stage # "none" /\ http.transport[1].rejected

\* C29: a transport failure is propagated unchanged and not retried: each
\* client call has sent exactly one HTTP request with its action, version and
\* params, and a rejected request makes the run fail with the error of the
\* transport, without a mutation after it and without a document written
C29_TransportFailureAborts ==
    /\ []OneRequestPerCall
    /\ [][TransportRejected =>
             /\ pc' = "failed"
             /\ run'.error = http.transport[1].error
             /\ vault' = vault
             /\ remote' = remote
             /\ nextId' = nextId]_vars

\* the run has failed with the error the transport rejected a setup call with
C29_Witness ==
    /\ pc = "failed"
    /\ run.error \in TransportErrors
    /\ \E k \in 1..Len(run.notices) : run.notices[k].kind = "failure"


----------------------------------------------------------------------------
(* Tags in other letter cases, and other tags, on the remote records *)

\* the managed tag as Anki may hold it, and tags that are not the managed tag
MixedCaseTag == <<"A", "n", "K", "i", "L", "i", "N", "k">>
UpperCaseTag == <<"A", "N", "K", "I", "L", "I", "N", "K">>
OtherTag == <<"a", "n", "k", "i">>
TagSets == {{MixedCaseTag}, {UpperCaseTag}, {OtherTag, MixedCaseTag}, {OtherTag}, {}}

\* the tags of a record are changed in Anki
RemoteRetag ==
    \E id \in NoteIds, tags \in TagSets : Interfere(id, [remote[id] EXCEPT !.tags = tags])

NextTags ==
    \/ StartSync
    \/ EnsureSetup
    \/ LoadSyncContexts
    \/ LoadGlobalReadState
    \/ SendBatch
    \/ RemoteMulti
    \/ ReceiveResults
    \/ WriteDocument
    \/ Finish
    \/ EditTitle
    \/ SetDeck
    \/ RemoteRetag

SpecTags == Init /\ [][NextTags]_vars

\* a letter and its capital
LetterPairs == {{"a", "A"}, {"i", "I"}, {"k", "K"}, {"l", "L"}, {"n", "N"}}

\* the two tags are the same up to the case of their letters
SameLetters(a, b) ==
    /\ Len(a) = Len(b)
    /\ \A i \in 1..Len(a) : a[i] = b[i] \/ {a[i], b[i]} \in LetterPairs

\* the record carries the managed tag in some letter case
CarriesTag(id) == \E t \in remote[id].tags : SameLetters(t, ANKI_LINK_TAG)

\* an addTags with the identifier is staged
TagStaged(id) == \E a \in BatchActions("addTags") : id \in a.ids

\* C30: the managed-tag check ignores letter case: for a record that carries
\* the tag in any letter case no addTags is staged, and its fields and deck
\* are compared; a record with only other tags is tagged and not compared
C30_TagCheckIgnoresCase ==
    BatchStaged =>
        \A p \in Parsed :
            Resolves(p) =>
                IF CarriesTag(p.noteData.id)
                THEN /\ ~TagStaged(p.noteData.id)
                     /\ UpdateStaged(p) <=> FieldsDiffer(p)
                     /\ MoveStaged(p) <=> (remote[p.noteData.id].cards # <<>>
                                           /\ ~InDeck(p.noteData.id, p.deckName))
                ELSE /\ TagStaged(p.noteData.id)
                     /\ UpdatesFor(p.noteData.id) = {}
                     /\ MovesFor(p.noteData.id) = {}

\* a record tagged AnKiLiNk and nothing else is not tagged again, and the
\* update its edited flashcard needs is staged
C30_Witness ==
    /\ BatchStaged
    /\ \E p \in Parsed :
          /\ Resolves(p)
          /\ remote[p.noteData.id].tags = {MixedCaseTag}
          /\ ~TagStaged(p.noteData.id)
          /\ FieldsDiffer(p)
          /\ UpdateStaged(p)


----------------------------------------------------------------------------
(* Fenced blocks *)

\* line i is a fence at which the scan of the body arrives and for which a
\* later fence of its kind with an empty info string exists
OpensBlock(body, i) ==
    /\ IsFenceLine(body[i])
    /\ ~Enclosed(body, i)
    /\ ClosersAfter(body, i) # {}

\* the segment of the block that line i opens and line q closes: the lines
\* between them, whatever they are, joined as its content
BlockSegment(body, i, q) ==
    IF lexLine(body[i]).marker = "$$"
    THEN MathSegment(JoinLines(SubSeq(body, i + 1, q - 1)))
    ELSE CodeSegment(lexLine(body[i]).info, JoinLines(SubSeq(body, i + 1, q - 1)))

\* C31: a fence-open line is closed by the first later fence line of its
\* kind with an empty info string; the lines between the two, fences of
\* another kind or with an info string included, are the content of one Code
\* or Math segment, and the scan resumes at the line after the close: the
\* segments of the body are those of the lines before the block, the block's
\* segment, and those of the lines after the closing fence
C31_BlockClosedByFirstBareFence ==
    Loaded =>
        \A body \in LoadedBodies : \A i \in DOMAIN body :
            OpensBlock(body, i) =>
                LET q == MinOf(ClosersAfter(body, i))
                IN Segments(body) =
                       Segments(SubSeq(body, 1, i - 1))
                       \o <<BlockSegment(body, i, q)>>
                       \o Segments(SubSeq(body, q + 1, Len(body)))

\* a code block whose only inner line is a code fence with an info string
C31_Witness ==
    /\ Loaded
    /\ \E body \in LoadedBodies :
          /\ Len(body) = 3
          /\ OpensBlock(body, 1)
          /\ lexLine(body[2]).type = "fence"
          /\ lexLine(body[2]).info # <<>>
          /\ Segments(body) = <<CodeSegment(<<>>, body[2])>>


----------------------------------------------------------------------------
(* Headers without a title *)

\* the line matches the header grammar and its title is empty
UntitledHeader(line) == parsePreamble(line).matched /\ parsePreamble(line).title = <<>>

\* line j of the file lies in the range, header and body, of one of its records
InRecord(f, j) ==
    \E k \in DOMAIN RecordsOf(f) :
        RecordsOf(f)[k].index <= j /\ j <= LastLineOf(f, RecordsOf(f)[k])

\* the lines from i + 1 to j hold no line that matches the header grammar
NoHeaderBetween(lines, i, j) ==
    \A m \in (i + 1)..j : ~parsePreamble(lines[m]).matched

\* C32: a line that matches the header grammar with an empty title gives no
\* record and no error; it ends the body of the flashcard before it, the
\* lines after it up to the next header belong to no flashcard, and the scan
\* goes on at the next line, where a header with a title has its record
C32_UntitledHeaderIsSkipped ==
    Loaded =>
        /\ run.error = ""
        /\ \A f \in Files :
              run.fileDecks[f] # NoDeck =>
                  \A i \in DOMAIN vault[f].lines :
                      UntitledHeader(vault[f].lines[i]) =>
                          /\ ~InRecord(f, i)
                          /\ \A j \in (i + 1)..Len(vault[f].lines) :
                                NoHeaderBetween(vault[f].lines, i, j) => ~InRecord(f, j)
                          /\ (i < Len(vault[f].lines)
                                /\ TitledHeader(vault[f].lines[i + 1]))
                                => \E k \in DOMAIN RecordsOf(f) :
                                       RecordsOf(f)[k].index = i + 1

\* a flashcard, a header without title, a quoted line: one record with an
\* empty body, and the quoted line in no record
C32_Witness ==
    /\ Loaded
    /\ Len(vault[1].lines) = 3
    /\ TitledHeader(vault[1].lines[1])
    /\ UntitledHeader(vault[1].lines[2])
    /\ vault[1].lines[3] = Quoted(<<"x">>)
    /\ Len(RecordsOf(1)) = 1
    /\ BodyOf(1, RecordsOf(1)[1]) = <<>>
    /\ ~InRecord(1, 3)


----------------------------------------------------------------------------
(* Targets of the mutation batch *)

\* the identifiers the batch deletes, tags, updates and moves
DeleteTargets == UNION {a.ids : a \in BatchActions("deleteNotes")}
TagTargets == UNION {a.ids : a \in BatchActions("addTags")}
UpdateTargets == {a.id : a \in BatchActions("updateNoteFields")}
MoveTargets == {id \in NoteIds : MovesFor(id) # {}}

\* C33: in a mutation batch no identifier of deleteNotes is a target of
\* updateNoteFields, changeDeck or addTags, and no identifier of addTags is a
\* target of updateNoteFields or changeDeck
C33_BatchTargetsDisjoint ==
    BatchStaged =>
        /\ DeleteTargets \cap (UpdateTargets \cup MoveTargets \cup TagTargets) = {}
        /\ TagTargets \cap (UpdateTargets \cup MoveTargets) = {}

\* a batch that deletes one record and tags, updates or moves another
C33_Witness ==
    /\ BatchStaged
    /\ DeleteTargets # {}
    /\ TagTargets \cup UpdateTargets \cup MoveTargets # {}



----------------------------------------------------------------------------
(* Documents out of sync scope and the delete set *)

\* the documents the run excludes for lack of a deck value
OutOfScope == {f \in Files : NoDeckValue(vault[f].meta)}

\* the identifiers written in the headers of the documents in scope
IdsInScope == UNION {HeaderIds(vault[f].lines) : f \in Files \ OutOfScope}

\* the identifiers written in headers of excluded documents only
IdsOnlyOutOfScope ==
    UNION {HeaderIds(vault[f].lines) : f \in OutOfScope} \ IdsInScope

\* C34: only flashcards of documents in sync scope count as seen: an
\* identifier that appears only in a document excluded for lack of deck
\* metadata is not in the seen set and, when it was managed-tagged at the
\* start of the run, is in the delete set; a run with no document in scope
\* deletes every managed-tagged record
C34_OutOfScopeIsNotSeen ==
    BatchStaged =>
        /\ run.plan.seenNoteIds \cap IdsOnlyOutOfScope = {}
        /\ (IdsOnlyOutOfScope \cap run.globalReadState.taggedNoteIdsAtStart)
              \subseteq DeleteTargets
        /\ (OutOfScope = Files)
              => DeleteTargets = run.globalReadState.taggedNoteIdsAtStart

\* a run with both documents out of scope that deletes a managed-tagged
\* record whose identifier one of them carries
C34_Witness ==
    /\ BatchStaged
    /\ OutOfScope = Files
    /\ IdsOnlyOutOfScope \cap run.globalReadState.taggedNoteIdsAtStart # {}
    /\ DeleteTargets = run.globalReadState.taggedNoteIdsAtStart



----------------------------------------------------------------------------
(* How often one record is a target *)

\* the positions of the batch that update, or move the cards of, the record
UpdatePositions(id) ==
    {k \in DOMAIN Batch : Batch[k].action = "updateNoteFields" /\ Batch[k].id = id}

MovePositions(id) ==
    {k \in DOMAIN Batch :
        /\ Batch[k].action = "changeDeck"
        /\ \E c \in DOMAIN Batch[k].cards : Batch[k].cards[c] = id}

\* C35: within one run's mutation batch each record identifier is the target
\* of at most one updateNoteFields action and of at most one changeDeck action
C35_AtMostOneUpdateAndMove ==
    BatchStaged =>
        \A id \in NoteIds :
            /\ Cardinality(UpdatePositions(id)) <= 1
            /\ Cardinality(MovePositions(id)) <= 1



----------------------------------------------------------------------------
(* The order of the phases of a run *)

\* the positions of the setup requests of the run
SetupPositions == DOMAIN run.requests \ RequestsOf("multi")

\* the setup requests precede the bulk read, and the bulk read the mutation
\* batch; a bulk read is sent only after the last setup request was answered,
\* a mutation batch only after the bulk read was examined
RequestsInPhaseOrder ==
    /\ \A s \in SetupPositions : \A m \in RequestsOf("multi") : s < m
    /\ \A b \in BulkReads : \A m \in MutationRequests : b < m
    /\ BulkReads # {} =>
          /\ RequestsOf("updateModelStyling") # {}
          /\ Cardinality(RequestsOf("createDeck")) = Cardinality(run.setup.createDeck)
          /\ pc # "setup"
    /\ MutationRequests # {} =>
          /\ BulkReads # {}
          /\ pc \in {"sent", "recv", "write", "done"}

\* the decks the notes of addNotes and the changeDeck actions name
DecksNamed ==
    UNION {{a.notes[i].deckName : i \in DOMAIN a.notes} : a \in BatchActions("addNotes")}
    \cup {a.deck : a \in BatchActions("changeDeck")}

\* a document is written in the write-back phase only, which a run enters
\* from the examined response of its batch, or with no batch to send
WritesFollowTheResponse ==
    /\ (InFlight /\ vault' # vault) => pc = "write"
    /\ (pc # "write" /\ pc' = "write") =>
          \/ pc = "recv" /\ CreatedNoteIds(run.plan, wire).ok
                /\ Len(CreatedNoteIds(run.plan, wire).items) = Len(run.plan.notesToCreate)
          \/ pc = "plan" /\ run'.plan.mutationActions = <<>>

\* C36: in every run deck setup and model configuration complete before the
\* bulk read is sent, the bulk read completes before the mutation batch is
\* sent, and the response of the batch is received and validated before any
\* document is written; every deck an addNotes note or a changeDeck action
\* names is in the store when the batch is staged, listed by deckNames or
\* created after it
C36_PhasesInOrder ==
    /\ [](RequestsInPhaseOrder /\ (Planned => DecksNamed \subseteq remoteDecks))
    /\ [][WritesFollowTheResponse]_vars

\* the order of the phases alone, whatever the store holds
C36_OrderOnly ==
    /\ []RequestsInPhaseOrder
    /\ [][WritesFollowTheResponse]_vars



----------------------------------------------------------------------------
(* The scanning loops advance *)

\* parseDocument lines 362-374: the index after the pass that starts at line i
LineAfter(lines, i) ==
    LET pre == parsePreamble(lines[i])
    IN IF ~pre.matched \/ pre.title = <<>> THEN i + 1
       ELSE i + Len(parseBody(Rest(lines, i + 1))) + 1

\* parseBodyTokens lines 431-465: the index after the pass that starts at
\* token i
TokenAfter(tokens, i) ==
    LET token == tokens[i]
        closeIdx == findClosingFenceToken(tokens, i + 1, token.marker)
    IN IF token.type # "fence" \/ closeIdx = 0 THEN i + 1 ELSE closeIdx + 1

\* extractInlineMathPlaceholders lines 515-534: the index after the pass that
\* starts at character i
CharAfter(markdown, i, placeholderCounter) ==
    LET inlineCode == consumeInlineCode(markdown, i)
        inlineMath == consumeInlineMath(markdown, i, placeholderCounter)
    IN IF inlineCode.found THEN i + inlineCode.length
       ELSE IF ~inlineMath.found THEN i + 1
       ELSE i + inlineMath.length

\* the passes a loop makes from index i until it is past the end of its
\* input, counted up to fuel + 1
RECURSIVE LinePasses(_, _, _)
LinePasses(lines, i, fuel) ==
    IF i > Len(lines) THEN 0
    ELSE IF fuel = 0 THEN 1
    ELSE 1 + LinePasses(lines, LineAfter(lines, i), fuel - 1)

RECURSIVE TokenPasses(_, _, _)
TokenPasses(tokens, i, fuel) ==
    IF i > Len(tokens) THEN 0
    ELSE IF fuel = 0 THEN 1
    ELSE 1 + TokenPasses(tokens, TokenAfter(tokens, i), fuel - 1)

RECURSIVE CharPasses(_, _, _)
CharPasses(markdown, i, fuel) ==
    IF i > Len(markdown) THEN 0
    ELSE IF fuel = 0 THEN 1
    ELSE 1 + CharPasses(markdown, CharAfter(markdown, i, 0), fuel - 1)

\* the bodies parseDocument hands to the formatter, for every header with a
\* title, and the texts the formatter hands to extractInlineMathPlaceholders
BodiesIn(lines) ==
    {parseBody(Rest(lines, i + 1)) :
        i \in {k \in DOMAIN lines : TitledHeader(lines[k])}}

TextsIn(body) ==
    {JoinLines(Segments(body)[k].lines) :
        k \in {j \in DOMAIN Segments(body) : Segments(body)[j].type = "text"}}

\* every pass of the three loops ends at a higher index, by the step the
\* loop takes, and the loop is past its input after at most as many passes
\* as the input has elements
LinesAdvance(lines) ==
    /\ \A i \in DOMAIN lines :
          /\ LineAfter(lines, i) > i
          /\ LineAfter(lines, i) <= Len(lines) + 1
          /\ TitledHeader(lines[i])
                => LineAfter(lines, i) = i + Len(parseBody(Rest(lines, i + 1))) + 1
          /\ ~TitledHeader(lines[i]) => LineAfter(lines, i) = i + 1
    /\ LinePasses(lines, 1, Len(lines)) <= Len(lines)

TokensAdvance(tokens) ==
    /\ \A i \in DOMAIN tokens :
          /\ TokenAfter(tokens, i) > i
          /\ TokenAfter(tokens, i) <= Len(tokens) + 1
          /\ TokenAfter(tokens, i) # i + 1 =>
                /\ tokens[TokenAfter(tokens, i) - 1].type = "fence"
                /\ tokens[TokenAfter(tokens, i) - 1].marker = tokens[i].marker
    /\ TokenPasses(tokens, 1, Len(tokens)) <= Len(tokens)

CharsAdvance(markdown) ==
    /\ \A i \in DOMAIN markdown : \A n \in 0..1 :
          /\ CharAfter(markdown, i, n) > i
          /\ CharAfter(markdown, i, n) <= Len(markdown) + 1
          /\ consumeInlineCode(markdown, i).found
                => consumeInlineCode(markdown, i).length >= 2
          /\ consumeInlineMath(markdown, i, n).found
                => consumeInlineMath(markdown, i, n).length >= 2
    /\ CharPasses(markdown, 1, Len(markdown)) <= Len(markdown)

\* C37: the scanning loops terminate because each pass strictly advances its
\* index: parseDocument over the lines of a document by 1 or by the length of
\* the body + 1, parseBodyTokens over the tokens of a body by 1 or to the
\* index after the closing fence, extractInlineMathPlaceholders over the
\* characters of a text by 1 or by the positive length of the code or math
\* span it consumed
C37_ScanningLoopsAdvance ==
    \A f \in Files :
        /\ LinesAdvance(vault[f].lines)
        /\ \A body \in BodiesIn(vault[f].lines) :
              /\ TokensAdvance(lexBody(body))
              /\ \A text \in TextsIn(body) : CharsAdvance(text)

\* a parsed document whose flashcard has a body with an empty math block and
\* a text line with an inline math span: each loop has taken a long step
C37_Witness ==
    /\ Loaded
    /\ Len(RecordsOf(1)) = 1
    /\ LineAfter(vault[1].lines, 1) = 5
    /\ \E body \in BodiesIn(vault[1].lines) :
          /\ Len(body) = 3
          /\ TokenAfter(lexBody(body), 1) = 3
          /\ \E text \in TextsIn(body) :
                Len(text) = 5 /\ CharAfter(text, 1, 0) = 4

====
